---- MODULE Spec2Model ----
(***************************************************************************)
(* feeddo: the concurrent pipeline of cmd/feeddo (appRun, runPeriodic,     *)
(* runOnce, parser.ProcessFeed, kafka.CreateProducersPool and the metrics  *)
(* fold processKafkaRes), one action per channel operation of a goroutine. *)
(***************************************************************************)
EXTENDS Integers, Sequences, FiniteSets, TLC

\* ---------------------------------------------------------------- bounds
\* largest number of configured feeds
NumFeeds == 2
\* number of publisher workers started by the pool (maxProducers in appRun)
NumWorkers == 1
\* number of SHOPITEM elements the decoders read in one run, all streams together
MaxItems == 2
\* number of passes (runOnce calls) one run starts
MaxPasses == 3
\* number of termination signals runPeriodic receives
MaxSignals == 2
\* number of GetMetric / IncrementMetric calls made on one container
MaxCalls == 2
\* length of the text given to Price.UnmarshalText
MaxPriceLen == 5

Feeds == 1..NumFeeds
Workers == 1..NumWorkers
Passes == 1..MaxPasses

\* ---------------------------------------------------------------- values
\* the empty feed key "" (no job of runOnce carries it)
NoCtx == 0
TopicShopItems == "shop_items"
TopicShopItemsBidding == "shop_items_bidding"
\* the zero heureka.Item; valid: the whole SHOPITEM decoded without error
NoItem == [id |-> 0, cpc |-> 0, valid |-> FALSE]
NoJob == [feed |-> NoCtx, id |-> 0, topics |-> <<>>]
NoRes == [ctx |-> NoCtx, id |-> 0, err |-> "nil"]
\* CPC values of a decoded SHOPITEM: Price.UnmarshalText takes any decimal,
\* an absent HEUREKA_CPC leaves the zero value
CPCValues == {-1, 0, 1}
\* what the broker does with one submission
AckKinds == {"ackOk", "produceErr", "ackErr", "ackOther"}
\* the same, and a submission that is accepted and never acknowledged
BrokerKinds == AckKinds \cup {"ackNone"}
\* the runPeriodic functions of the repository: the context-based one
\* (modelled in full) and its two predecessors
Iterations == {"context", "syncmap", "container"}

MetricKinds == {"feed", "total", "succeeded", "failed"}

VARIABLES
    interval,       \* 0: one-shot, 1: periodic
    feeds,          \* the configured feeds
    appPc,          \* position of the goroutine that runs appRun
    panicked,       \* an unrecovered panic has ended the process
    kafkaCancelled, \* ctxKafka is done
    errCtxDone,     \* ctxError is done
    errLogger,      \* processErrors goroutine
    itemChanClosed, \* chanKafkaItem is closed
    processing,     \* runPeriodic local
    runLoop,        \* runPeriodic local
    errs,           \* runPeriodic local / result of the pass in one-shot mode
    busyTick,       \* runPeriodic has received a tick while processing was true
    passCount,      \* runOnce calls started so far
    sigCount,       \* signals received so far from chanCloseApp
    roPc,           \* per pass: position of runOnce's collecting loop
    roErrs,         \* per pass: errs collected by runOnce
    exitClosed,     \* per pass: exitChan is closed
    pgPc,           \* per pass: position of the goroutine runPeriodic spawned for it
    pgErrs,         \* per pass: errors that goroutine still has to send
    fg,             \* per pass and feed: the per-feed goroutine / its consumer loop
    dec,            \* per pass and feed: the decoder goroutine of ProcessFeed
    errBuf,         \* per pass and feed: chanItemError (capacity 1)
    itemsRead,      \* SHOPITEM elements read so far
    feedDefer,      \* per pass and feed: the deferred m.Add(-1) of the per-feed goroutine
    stream,         \* per pass and feed: the readCloser of provider.CreateStream
    wk,             \* per worker: position, job, result
    chanRes,        \* buffered result channel (capacity 1)
    poolClosed,     \* chanRes and chanProducersExited are closed
    foldPc,         \* processKafkaRes
    foldRes,        \* the Result processKafkaRes is folding
    mc,             \* metrics.Container: feed key -> kind -> value
    consumed,       \* the jobs workers have received, as <<feed key, record id>>
    sentOrder,      \* per feed: the record ids sent on chanKafkaItem, in order
    emitted         \* <<ItemContext, ItemID>> -> number of Results sent with it on chanRes

\* the two earlier runPeriodic functions of the repository
VARIABLES
    iteration,      \* which runPeriodic runs: "context", "syncmap", "container"
    oldPc,          \* position of an earlier runPeriodic
    processingOld,  \* its local processing
    runApp,         \* its local runApp
    errsOld,        \* its local errs
    passOld,        \* position of the goroutine it started on a tick
    pendingOld,     \* errors that goroutine still has to send on errChan
    passesOld,      \* number of runOnce calls it has made
    idleTicks       \* number of ticks it received with no pass in flight,
                    \* no error collected and no signal received

\* one call of heureka.Price.UnmarshalText
VARIABLES
    priceText,      \* text, one character per element
    priceRes        \* the error returned and the decimal left in p

\* the metrics endpoint
VARIABLES
    srvPc,          \* the goroutines of metrics.RunServer
    redirPc         \* redirectMetricsErrorsToErrors

\* the context of the Producer
VARIABLES
    maxProducersOk  \* p.ctx holds an int under MaxProducersCtxKey

\* calls of Container.GetMetric and Container.IncrementMetric
VARIABLES
    metCall         \* the last call: its number, method, key, kind and result

\* one call of putItemToKafka, one broker interaction at a time
VARIABLES
    pubPc,          \* position in putItemToKafka / sendMessageToKafka
    pubItem,        \* the item it was called with
    pubMarshalOk,   \* whether item.Marshal() succeeds
    pubAcks,        \* what the broker does with the submission of each topic
    pubTopic,       \* index of the topic of the loop over item.Topics()
    pubProduced,    \* the topics handed to Produce so far, in order
    pubRes          \* res

priceVars == <<priceText, priceRes>>
srvVars == <<srvPc, redirPc>>
cfgVars == <<maxProducersOk>>
metVars == <<metCall>>
pubVars == <<pubPc, pubItem, pubMarshalOk, pubAcks, pubTopic, pubProduced, pubRes>>
oldVars == <<iteration, oldPc, processingOld, runApp, errsOld, passOld, pendingOld,
             passesOld, idleTicks>>
appVars == <<interval, feeds, appPc, panicked, kafkaCancelled, errCtxDone, errLogger, itemChanClosed>>
drvVars == <<processing, runLoop, errs, busyTick, passCount>>
sigVars == <<sigCount>>
roVars == <<roPc, roErrs, exitClosed, pgPc, pgErrs>>
feedVars == <<fg, dec, errBuf, itemsRead, feedDefer, stream>>
poolVars == <<wk, chanRes, poolClosed, consumed, sentOrder, emitted>>
foldVars == <<foldPc, foldRes, mc>>
mainVars == <<priceVars, srvVars, cfgVars, metVars, oldVars, appVars, drvVars, sigVars, roVars, feedVars, poolVars, foldVars>>
vars == <<mainVars, pubVars>>

\* ------------------------------------------------------------ heureka.Price
\* the characters of a price text: digits, the space, the two separators,
\* the sign and the exponent mark
Digits == {"0", "1"}
PriceChars == Digits \cup {" ", ",", ".", "-", "e"}
Texts == UNION {[1..n -> PriceChars] : n \in 0..MaxPriceLen}

\* no call has returned; a returned call leaves err and, where err is
\* FALSE, the decimal mant * 10^exp
NoPrice == [done |-> FALSE, err |-> FALSE, mant |-> 0, exp |-> 0]
PriceErr == [done |-> TRUE, err |-> TRUE, mant |-> 0, exp |-> 0]

DigitVal(c) == IF c = "1" THEN 1 ELSE 0

\* the number written by a string of digits
RECURSIVE Num(_)
Num(ds) ==
    IF ds = <<>> THEN 0 ELSE 10 * Num(SubSeq(ds, 1, Len(ds) - 1)) + DigitVal(ds[Len(ds)])

\* big.Int.SetString(s, 10) and strconv.ParseInt(s, 10, 32) on these
\* characters: an optional sign and at least one digit, nothing else
ParseInteger(str) ==
    LET neg == str # <<>> /\ str[1] = "-"
        ds == IF neg THEN Tail(str) ELSE str
    IN IF ds # <<>> /\ \A i \in 1..Len(ds) : ds[i] \in Digits
       THEN [ok |-> TRUE, val |-> IF neg THEN 0 - Num(ds) ELSE Num(ds)]
       ELSE [ok |-> FALSE, val |-> 0]

\* strings.TrimRight(str, "0")
RECURSIVE TrimRightZeros(_)
TrimRightZeros(str) ==
    IF str # <<>> /\ str[Len(str)] = "0" THEN TrimRightZeros(SubSeq(str, 1, Len(str) - 1)) ELSE str

\* the positions of character c in str
Positions(str, c) == {i \in 1..Len(str) : str[i] = c}

Least(S) == CHOOSE i \in S : \A j \in S : i <= j

\* decimal.NewFromString (shopspring/decimal v1.2.0): an exponent after
\* the first e, then the value split at its dots into one part or two
NewFromString(str) ==
    LET es == Positions(str, "e")
        expo == IF es = {} THEN [ok |-> TRUE, val |-> 0]
                ELSE ParseInteger(SubSeq(str, Least(es) + 1, Len(str)))
        value == IF es = {} THEN str ELSE SubSeq(str, 1, Least(es) - 1)
        dots == Positions(value, ".")
    IN IF ~expo.ok THEN PriceErr
       ELSE IF Cardinality(dots) > 1 THEN PriceErr
       ELSE LET dot == IF dots = {} THEN Len(value) + 1 ELSE Least(dots)
                whole == SubSeq(value, 1, dot - 1)
                frac == SubSeq(value, dot + 1, Len(value))
                decimalPart == TrimRightZeros(frac)
                intString == IF whole \o decimalPart = <<>> /\ frac # <<>>
                             THEN <<"0">> ELSE whole \o decimalPart
                n == ParseInteger(intString)
            IN IF ~n.ok THEN PriceErr
               ELSE [done |-> TRUE, err |-> FALSE, mant |-> n.val,
                     exp |-> expo.val - Len(decimalPart)]

\* a normalisation that removes the spaces and leaves the commas
PriceNormalizeKeepsCommas(text) == SelectSeq(text, LAMBDA c : c # " ")

\* bytes.ReplaceAll(text, " ", ""), then bytes.ReplaceAll(text, ",", ".")
PriceNormalize(text) ==
    LET spaceless == SelectSeq(text, LAMBDA c : c # " ")
    IN [i \in 1..Len(spaceless) |-> IF spaceless[i] = "," THEN "." ELSE spaceless[i]]

\* Price.UnmarshalText
PriceUnmarshalText(text) == NewFromString(PriceNormalize(text))

\* ------------------------------------------------------- metrics.Container
NewMetrics(listURL) == [f \in listURL |-> [k \in MetricKinds |-> 0]]

\* result of GetMetric: is the metric there
GetMetric(c, key, typeMetric) ==
    key \in DOMAIN c /\ typeMetric \in DOMAIN c[key]

\* IncrementMetric that makes the entry it does not find
IncrementMetricCreates(c, key, metricType) ==
    IF GetMetric(c, key, metricType)
    THEN [mc |-> [c EXCEPT ![key][metricType] = @ + 1], err |-> FALSE]
    ELSE [mc |-> IF key \in DOMAIN c
                 THEN [c EXCEPT ![key] = (metricType :> 1) @@ @]
                 ELSE (key :> (metricType :> 1)) @@ c,
          err |-> FALSE]

\* IncrementMetric: the container afterwards and whether an error is returned
IncrementMetric(c, key, metricType) ==
    IF GetMetric(c, key, metricType)
    THEN [mc |-> [c EXCEPT ![key][metricType] = @ + 1], err |-> FALSE]
    ELSE [mc |-> c, err |-> TRUE]

\* no call has been made
NoCall == [n |-> 0, op |-> "none", key |-> NoCtx, kind |-> "", err |-> FALSE]

\* ------------------------------------------------------------ kafka worker
\* sendMessageToKafka that takes any acknowledgement event for a delivered message
SendMessageToKafkaNoCast(ack) ==
    CASE ack = "produceErr" -> "send"
      [] ack = "ackErr" -> "delivery"
      [] OTHER -> "nil"

\* sendMessageToKafka: the error returned for one submission
SendMessageToKafka(ack) ==
    CASE ack = "produceErr" -> "send"
      [] ack = "ackOther" -> "cast"
      [] ack = "ackErr" -> "delivery"
      [] OTHER -> "nil"

RECURSIVE FirstTopicError(_, _)
FirstTopicError(topics, acks) ==
    IF topics = <<>> THEN "nil"
    ELSE LET e == SendMessageToKafka(Head(acks))
         IN IF e # "nil" THEN e ELSE FirstTopicError(Tail(topics), Tail(acks))

\* putItemToKafka returning a bare Result{Err: ...} when marshalling fails
PutItemToKafkaBareError(job, marshalOk, acks) ==
    IF ~marshalOk THEN [ctx |-> NoCtx, id |-> 0, err |-> "marshal"]
    ELSE [ctx |-> job.feed, id |-> job.id, err |-> FirstTopicError(job.topics, acks)]

\* putItemToKafka: the Result for one job
PutItemToKafka(job, marshalOk, acks) ==
    [ctx |-> job.feed, id |-> job.id,
     err |-> IF ~marshalOk THEN "marshal" ELSE FirstTopicError(job.topics, acks)]

\* runOnce: the topics of a record
Topics(item) ==
    IF item.cpc # 0 THEN <<TopicShopItems, TopicShopItemsBidding>>
    ELSE <<TopicShopItems>>

AppItem(item, f) == [feed |-> f, id |-> item.id, topics |-> Topics(item)]

JobKey(j) == <<j.feed, j.id>>

\* one more occurrence of k in the record of sent Results
Count(bag, k) ==
    IF k \in DOMAIN bag THEN [bag EXCEPT ![k] = @ + 1] ELSE bag @@ (k :> 1)

\* ------------------------------------------------------------------- Init
\* no price is being parsed
PriceIdle == priceText = <<>> /\ priceRes = NoPrice

\* no call of putItemToKafka is followed step by step
PubIdle ==
    /\ pubPc = "idle"
    /\ pubItem = NoJob
    /\ pubMarshalOk = TRUE
    /\ pubAcks = <<>>
    /\ pubTopic = 0
    /\ pubProduced = <<>>
    /\ pubRes = NoRes

\* the locals and channels of a run in which nothing has happened yet
InitIdle ==
    /\ srvPc = "none"
    /\ redirPc = "none"
    /\ metCall = NoCall
    /\ iteration \in Iterations
    /\ \/ interval = 0 /\ feeds \in {1..n : n \in 1..NumFeeds} /\ iteration = "context"
       \/ interval = 1 /\ feeds = {1} /\ iteration = "context"
       \/ interval = 1 /\ feeds \in {1..n : n \in 1..NumFeeds} /\ iteration # "context"
    /\ oldPc = "start"
    /\ processingOld = FALSE
    /\ runApp = TRUE
    /\ errsOld = <<>>
    /\ passOld = "none"
    /\ pendingOld = <<>>
    /\ passesOld = 0
    /\ idleTicks = 0
    /\ panicked = FALSE
    /\ kafkaCancelled = FALSE
    /\ errCtxDone = FALSE
    /\ errLogger = "running"
    /\ itemChanClosed = FALSE
    /\ processing = FALSE
    /\ runLoop = TRUE
    /\ errs = <<>>
    /\ busyTick = FALSE
    /\ sigCount = 0
    /\ roErrs = [p \in Passes |-> <<>>]
    /\ exitClosed = [p \in Passes |-> FALSE]
    /\ pgPc = [p \in Passes |-> "none"]
    /\ pgErrs = [p \in Passes |-> <<>>]
    /\ dec = [p \in Passes |-> [f \in Feeds |-> "none"]]
    /\ errBuf = [p \in Passes |-> [f \in Feeds |-> <<>>]]
    /\ itemsRead = 0
    /\ feedDefer = [p \in Passes |-> [f \in Feeds |-> "none"]]
    /\ stream = [p \in Passes |-> [f \in Feeds |-> "none"]]
    /\ chanRes = <<>>
    /\ poolClosed = FALSE
    /\ foldRes = NoRes
    /\ consumed = {}
    /\ sentOrder = [f \in Feeds |-> <<>>]
    /\ emitted = <<>>

\* ctxKafka as appRun builds it, with maxProducers under MaxProducersCtxKey
InitContext == maxProducersOk = TRUE

\* appRun has started no goroutine and no pass
InitNotStarted ==
    /\ appPc = "start"
    /\ passCount = 0
    /\ roPc = [p \in Passes |-> "idle"]
    /\ fg = [p \in Passes |-> [f \in Feeds |-> [pc |-> "none", err |-> "nil", item |-> NoItem]]]
    /\ wk = [w \in Workers |-> [pc |-> "none", job |-> NoJob]]
    /\ foldPc = "none"

\* the program after construction: appRun has not started a goroutine, and
\* the container it will build holds every feed
InitPipeline ==
    /\ InitIdle
    /\ InitContext
    /\ InitNotStarted
    /\ mc = NewMetrics(feeds)

Init == InitPipeline /\ PubIdle /\ PriceIdle

Alive == ~panicked

\* the state in which runOnce has just spawned one goroutine per feed
StartPass(p) ==
    /\ roPc' = [roPc EXCEPT ![p] = "loop"]
    /\ fg' = [fg EXCEPT ![p] = [f \in Feeds |->
                 [pc |-> IF f \in feeds THEN "open" ELSE "none", err |-> "nil", item |-> NoItem]]]
    /\ passCount' = p

\* --------------------------------------------------------------- appRun
\* appRun up to its call of runOnce / runPeriodic: start the error logger
\* and the metrics server, then the pool, the redirector and the fold, then
\* start the first pass; or fail on the producer
AppStart ==
    /\ Alive /\ appPc = "start" /\ iteration = "context"
    /\ srvPc' = "running"
    /\ \E ok \in BOOLEAN :
         IF ok
         THEN /\ appPc' = "pass1"
              /\ wk' = [w \in Workers |-> [pc |-> "select", job |-> NoJob]]
              /\ redirPc' = "select"
              /\ foldPc' = "select"
              /\ StartPass(1)
         ELSE /\ appPc' = "fail"
              /\ UNCHANGED <<wk, redirPc, foldPc, roPc, fg, passCount>>
    /\ UNCHANGED <<priceVars, cfgVars, metVars, pubVars, oldVars, interval, feeds, panicked, kafkaCancelled, errCtxDone, errLogger, itemChanClosed,
                   processing, runLoop, errs, busyTick, sigVars,
                   roErrs, exitClosed, pgPc, pgErrs, dec, errBuf, itemsRead, feedDefer, stream,
                   chanRes, poolClosed, consumed, sentOrder, emitted, foldRes, mc>>

\* the value appRun returns from position pc: the producer error of the
\* early return, and nil at its last statement
AppRunResult(pc) == IF pc = "fail" THEN "producer" ELSE "nil"

\* appRun: every error of the run is sent on chanError
AppReport ==
    /\ Alive /\ appPc = "report"
    /\ errs # <<>> => errLogger = "running"
    /\ appPc' = "cancel"
    /\ UNCHANGED <<priceVars, srvVars, cfgVars, metVars, pubVars, oldVars, interval, feeds, panicked, kafkaCancelled, errCtxDone, errLogger, itemChanClosed,
                   drvVars, sigVars, roVars, feedVars, poolVars, foldVars>>

\* appRun: kafkaCancelFunc(), metrixCancelFunc()
AppCancel ==
    /\ Alive /\ appPc = "cancel"
    /\ kafkaCancelled' = TRUE
    /\ appPc' = "wait"
    /\ UNCHANGED <<priceVars, srvVars, cfgVars, metVars, pubVars, oldVars, interval, feeds, panicked, errCtxDone, errLogger, itemChanClosed,
                   drvVars, sigVars, roVars, feedVars, poolVars, foldVars>>

\* an appRun that returns from its shutdown without errorWG.Wait()
AppReturnWithoutWait ==
    /\ Alive
    /\ \/ appPc = "wait"
       \/ appPc = "fail"
    /\ itemChanClosed' = (appPc = "wait")
    /\ kafkaCancelled' = TRUE
    /\ errCtxDone' = TRUE
    /\ appPc' = "returned"
    /\ UNCHANGED <<priceVars, srvVars, cfgVars, metVars, pubVars, oldVars, interval, feeds, panicked, errLogger,
                   drvVars, sigVars, roVars, feedVars, poolVars, foldVars>>

\* appRun returns (after errorWG.Wait(), or early when the producer could
\* not be created) and its deferred calls run
AppReturn ==
    /\ Alive
    /\ \/ appPc = "wait" /\ errLogger = "exited"
       \/ appPc = "fail"
    /\ itemChanClosed' = (appPc = "wait")
    /\ kafkaCancelled' = TRUE
    /\ errCtxDone' = TRUE
    /\ appPc' = "returned"
    /\ UNCHANGED <<priceVars, srvVars, cfgVars, metVars, pubVars, oldVars, interval, feeds, panicked, errLogger,
                   drvVars, sigVars, roVars, feedVars, poolVars, foldVars>>

\* RunServer: case <-ctx.Done(): s.Close(), the listener goroutine ends,
\* chanSrvExit and chanErr are closed (ctxMetrics is cancelled where
\* ctxKafka is; the server is taken to listen until then)
MetricsServerExit ==
    /\ Alive /\ srvPc = "running" /\ kafkaCancelled
    /\ srvPc' = "exited"
    /\ UNCHANGED <<priceVars, redirPc, cfgVars, metVars, pubVars, oldVars, appVars,
                   drvVars, sigVars, roVars, feedVars, poolVars, foldVars>>

\* redirectMetricsErrorsToErrors: case <-chanMetricsExit
RedirectorExit ==
    /\ Alive /\ redirPc = "select" /\ srvPc = "exited"
    /\ redirPc' = "exited"
    /\ UNCHANGED <<priceVars, srvPc, cfgVars, metVars, pubVars, oldVars, appVars,
                   drvVars, sigVars, roVars, feedVars, poolVars, foldVars>>

\* processErrors leaves its loop on ctx.Done()
ErrLoggerExit ==
    /\ Alive /\ errLogger = "running" /\ errCtxDone
    /\ errLogger' = "exited"
    /\ UNCHANGED <<priceVars, srvVars, cfgVars, metVars, pubVars, oldVars, interval, feeds, appPc, panicked, kafkaCancelled, errCtxDone, itemChanClosed,
                   drvVars, sigVars, roVars, feedVars, poolVars, foldVars>>

\* ----------------------------------------------------------- ProcessFeed
\* getItemFromStream that returns the item it was decoding along with the error
GetItemFromStreamKeepsItem(tok, i, c) ==
    CASE tok = "eof" -> [item |-> NoItem, err |-> "eof"]
      [] tok = "good" -> [item |-> [id |-> i, cpc |-> c, valid |-> TRUE], err |-> "nil"]
      [] tok = "bad" -> [item |-> [id |-> i, cpc |-> c, valid |-> FALSE], err |-> "item"]
      [] OTHER -> [item |-> NoItem, err |-> "nil"]

\* getItemFromStream on the next token of the stream: the end of input, a
\* SHOPITEM that decodes (with identifier i, 0 for none, and CPC c), a
\* SHOPITEM that fails to decode, or any other token; the item is NoItem
\* where the code returns nil
GetItemFromStream(tok, i, c) ==
    CASE tok = "eof" -> [item |-> NoItem, err |-> "eof"]
      [] tok = "good" -> [item |-> [id |-> i, cpc |-> c, valid |-> TRUE], err |-> "nil"]
      [] tok = "bad" -> [item |-> NoItem, err |-> "item"]
      [] OTHER -> [item |-> NoItem, err |-> "nil"]

\* a decoder that hands out the elements of the stream last to first
NextElementBackwards(read) == MaxItems - read

\* d.Token() / d.DecodeElement read the stream front to back: the position
\* in the document of the element read after `read` elements (the record
\* id of the model is that position)
NextElement(read) == read + 1

\* the decoder goroutine reaches the end of input and closes its channels
DecEOF(p, f) ==
    /\ Alive /\ dec[p][f] = "read"
    /\ GetItemFromStream("eof", 0, 0).err = "eof"
    /\ dec' = [dec EXCEPT ![p][f] = "done"]
    /\ UNCHANGED <<priceVars, srvVars, cfgVars, metVars, pubVars, oldVars, appVars, drvVars, sigVars, roVars, fg, errBuf, itemsRead, feedDefer, stream,
                   poolVars, foldVars>>

\* the decoder goroutine fails to decode a SHOPITEM, puts the error into
\* chanItemError and skips the element; a failing Skip ends the stream;
\* an item returned with the error would be sent on chanItemProducer
DecSendErr(p, f) ==
    /\ Alive /\ dec[p][f] = "read" /\ itemsRead < MaxItems
    /\ errBuf[p][f] = <<>>
    /\ LET r == GetItemFromStream("bad", NextElement(itemsRead), 0)
       IN /\ r.err \notin {"nil", "eof"}
          /\ errBuf' = [errBuf EXCEPT ![p][f] = <<r.err>>]
          /\ IF r.item # NoItem
             THEN /\ fg[p][f].pc = "select"
                  /\ fg' = [fg EXCEPT ![p][f] = [pc |-> "enqueue", err |-> "nil", item |-> r.item]]
             ELSE UNCHANGED fg
    /\ itemsRead' = itemsRead + 1
    /\ \E skipOk \in BOOLEAN :
         dec' = [dec EXCEPT ![p][f] = IF skipOk THEN "read" ELSE "sendSkipErr"]
    /\ UNCHANGED <<priceVars, srvVars, cfgVars, metVars, pubVars, oldVars, appVars, drvVars, sigVars, roVars, feedDefer, stream, poolVars, foldVars>>

\* the decoder goroutine reports the failed Skip and closes its channels
DecSendSkipErr(p, f) ==
    /\ Alive /\ dec[p][f] = "sendSkipErr"
    /\ errBuf[p][f] = <<>>
    /\ errBuf' = [errBuf EXCEPT ![p][f] = <<"skip">>]
    /\ dec' = [dec EXCEPT ![p][f] = "done"]
    /\ UNCHANGED <<priceVars, srvVars, cfgVars, metVars, pubVars, oldVars, appVars, drvVars, sigVars, roVars, fg, itemsRead, feedDefer, stream,
                   poolVars, foldVars>>

\* the decoder goroutine reads a further SHOPITEM after the consumer has
\* left its loop: chanItemProducer <- *item has no receiver any more, and
\* neither has chanItemError <- err once the buffer of chanItemError is full
DecSendBlocked(p, f) ==
    /\ Alive /\ dec[p][f] = "read" /\ itemsRead < MaxItems
    /\ fg[p][f].pc \in {"report", "done"}
    /\ \E tok \in {"good", "bad"} :
         LET r == GetItemFromStream(tok, NextElement(itemsRead), 0)
         IN IF r.err = "nil"
            THEN dec' = [dec EXCEPT ![p][f] = "sendItem"]
            ELSE /\ errBuf[p][f] # <<>>
                 /\ dec' = [dec EXCEPT ![p][f] = "sendErr"]
    /\ itemsRead' = itemsRead + 1
    /\ UNCHANGED <<priceVars, srvVars, cfgVars, metVars, pubVars, oldVars, appVars, drvVars, sigVars, roVars, fg, errBuf, feedDefer, stream,
                   poolVars, foldVars>>

\* ---------------------------------------------------------------- runOnce
\* per-feed goroutine after the metric: chanItemProducer, chanProducerError :=
\* parser.ProcessFeed(readCloser) and go func() { ... }(), the consumer
SpawnConsumer(p, f) ==
    /\ fg' = [fg EXCEPT ![p][f].pc = "select"]
    /\ dec' = [dec EXCEPT ![p][f] = "read"]

\* a per-feed goroutine that raises the gauge before it opens the stream
FeedOpenCountsFirst(p, f) ==
    /\ Alive /\ fg[p][f].pc = "open"
    /\ \E ok \in BOOLEAN :
         IF ok
         THEN /\ stream' = [stream EXCEPT ![p][f] = "open"]
              /\ IF GetMetric(mc, f, "feed")
                 THEN /\ mc' = [mc EXCEPT ![f]["feed"] = @ + 1]
                      /\ feedDefer' = [feedDefer EXCEPT ![p][f] = "pending"]
                      /\ SpawnConsumer(p, f)
                 ELSE /\ fg' = [fg EXCEPT ![p][f].pc = "metricErr"]
                      /\ UNCHANGED <<mc, feedDefer, dec>>
         ELSE /\ fg' = [fg EXCEPT ![p][f] = [pc |-> "report", err |-> "open", item |-> NoItem]]
              /\ mc' = IF GetMetric(mc, f, "feed") THEN [mc EXCEPT ![f]["feed"] = @ + 1] ELSE mc
              /\ UNCHANGED <<dec, feedDefer, stream>>
    /\ UNCHANGED <<priceVars, srvVars, cfgVars, metVars, pubVars, oldVars, appVars, drvVars, sigVars, roVars, errBuf, itemsRead, poolVars,
                   foldPc, foldRes>>

\* per-feed goroutine: provider.CreateStream, then mg.GetMetric(u.String(),
\* "feed") with m.Add(1) and defer m.Add(-1), then ProcessFeed and the
\* consumer goroutine; a missing metric is reported on errChan first
FeedOpen(p, f) ==
    /\ Alive /\ fg[p][f].pc = "open"
    /\ \E ok \in BOOLEAN :
         IF ok
         THEN /\ stream' = [stream EXCEPT ![p][f] = "open"]
              /\ IF GetMetric(mc, f, "feed")
                 THEN /\ mc' = [mc EXCEPT ![f]["feed"] = @ + 1]
                      /\ feedDefer' = [feedDefer EXCEPT ![p][f] = "pending"]
                      /\ SpawnConsumer(p, f)
                 ELSE /\ fg' = [fg EXCEPT ![p][f].pc = "metricErr"]
                      /\ UNCHANGED <<mc, feedDefer, dec>>
         ELSE /\ fg' = [fg EXCEPT ![p][f] = [pc |-> "report", err |-> "open", item |-> NoItem]]
              /\ UNCHANGED <<dec, mc, feedDefer, stream>>
    /\ UNCHANGED <<priceVars, srvVars, cfgVars, metVars, pubVars, oldVars, appVars, drvVars, sigVars, roVars, errBuf, itemsRead, poolVars,
                   foldPc, foldRes>>

\* per-feed goroutine: errChan <- "Failed to get metric", received by
\* runOnce's loop, then ProcessFeed and the consumer goroutine; the send
\* panics once runOnce has returned and closed errChan
FeedMetricErr(p, f) ==
    /\ Alive /\ fg[p][f].pc = "metricErr"
    /\ roPc[p] \in {"loop", "returned"}
    /\ IF roPc[p] = "loop"
       THEN /\ roErrs' = [roErrs EXCEPT ![p] = Append(@, "metric")]
            /\ SpawnConsumer(p, f)
            /\ UNCHANGED panicked
       ELSE /\ panicked' = TRUE
            /\ UNCHANGED <<roErrs, fg, dec>>
    /\ UNCHANGED <<priceVars, srvVars, cfgVars, metVars, pubVars, oldVars, interval, feeds, appPc, kafkaCancelled, errCtxDone, errLogger, itemChanClosed,
                   drvVars, sigVars, roPc, exitClosed, pgPc, pgErrs, errBuf, itemsRead, feedDefer, stream,
                   poolVars, foldVars>>

\* the per-feed goroutine returns once it has started the consumer, and its
\* deferred m.Add(-1) runs
FeedOuterReturn(p, f) ==
    /\ Alive /\ feedDefer[p][f] = "pending"
    /\ mc' = [mc EXCEPT ![f]["feed"] = @ - 1]
    /\ feedDefer' = [feedDefer EXCEPT ![p][f] = "ran"]
    /\ UNCHANGED <<priceVars, srvVars, cfgVars, metVars, pubVars, oldVars, appVars, drvVars, sigVars, roVars, fg, dec, errBuf, itemsRead, stream,
                   poolVars, foldPc, foldRes>>

\* a consumer that sends every item it receives, with or without an ID
FeedRecvItemKeepsEmpty(p, f) ==
    /\ Alive /\ fg[p][f].pc = "select"
    /\ dec[p][f] = "read" /\ itemsRead < MaxItems
    /\ \E hasId \in BOOLEAN, c \in CPCValues :
         LET r == GetItemFromStream("good", IF hasId THEN NextElement(itemsRead) ELSE 0, c)
             item == r.item
         IN /\ r.err = "nil" /\ item # NoItem
            /\ fg' = [fg EXCEPT ![p][f] = [pc |-> "enqueue", err |-> "nil", item |-> item]]
    /\ itemsRead' = itemsRead + 1
    /\ UNCHANGED <<priceVars, srvVars, cfgVars, metVars, pubVars, oldVars, appVars, drvVars, sigVars, roVars, dec, errBuf, feedDefer, stream,
                   poolVars, foldVars>>

\* the decoder goroutine decodes a SHOPITEM and sends it on
\* chanItemProducer; consumer: case item := <-chanItemProducer (an item
\* with an empty ID is dropped)
FeedRecvItem(p, f) ==
    /\ Alive /\ fg[p][f].pc = "select"
    /\ dec[p][f] = "read" /\ itemsRead < MaxItems
    /\ \E hasId \in BOOLEAN, c \in CPCValues :
         LET r == GetItemFromStream("good", IF hasId THEN NextElement(itemsRead) ELSE 0, c)
             item == r.item
         IN /\ r.err = "nil" /\ item # NoItem
            /\ fg' = [fg EXCEPT ![p][f] =
                        IF item.id # 0
                        THEN [pc |-> "enqueue", err |-> "nil", item |-> item]
                        ELSE @]
    /\ itemsRead' = itemsRead + 1
    /\ UNCHANGED <<priceVars, srvVars, cfgVars, metVars, pubVars, oldVars, appVars, drvVars, sigVars, roVars, dec, errBuf, feedDefer, stream,
                   poolVars, foldVars>>

\* consumer: case err := <-chanProducerError (a buffered error, or nil once
\* the decoder has closed the channel)
FeedRecvErr(p, f) ==
    /\ Alive /\ fg[p][f].pc = "select"
    /\ \/ /\ errBuf[p][f] # <<>>
          /\ fg' = [fg EXCEPT ![p][f] = [pc |-> "report", err |-> Head(errBuf[p][f]), item |-> NoItem]]
          /\ errBuf' = [errBuf EXCEPT ![p][f] = <<>>]
       \/ /\ errBuf[p][f] = <<>> /\ dec[p][f] = "done"
          /\ fg' = [fg EXCEPT ![p][f] = [pc |-> "report", err |-> "nil", item |-> NoItem]]
          /\ UNCHANGED errBuf
    /\ UNCHANGED <<priceVars, srvVars, cfgVars, metVars, pubVars, oldVars, appVars, drvVars, sigVars, roVars, dec, itemsRead, feedDefer, stream,
                   poolVars, foldVars>>

\* errChan <- err of a per-feed goroutine, received by runOnce's loop, then
\* close(exitChan) and the goroutine ends (the consumer closes the stream).
\* The send panics once runOnce has returned and closed errChan; closing the
\* closed exitChan panics.
FeedReport(p, f) ==
    /\ Alive /\ fg[p][f].pc = "report"
    /\ roPc[p] \in {"loop", "returned"}
    /\ IF roPc[p] = "loop"
       THEN /\ roErrs' = [roErrs EXCEPT ![p] =
                            IF fg[p][f].err # "nil" THEN Append(@, fg[p][f].err) ELSE @]
            /\ IF exitClosed[p]
               THEN /\ panicked' = TRUE
                    /\ UNCHANGED <<exitClosed, fg, stream>>
               ELSE /\ exitClosed' = [exitClosed EXCEPT ![p] = TRUE]
                    /\ fg' = [fg EXCEPT ![p][f].pc = "done"]
                    /\ stream' = [stream EXCEPT ![p][f] = IF @ = "open" THEN "closed" ELSE @]
                    /\ UNCHANGED panicked
       ELSE /\ panicked' = TRUE
            /\ UNCHANGED <<roErrs, exitClosed, fg, stream>>
    /\ UNCHANGED <<priceVars, srvVars, cfgVars, metVars, pubVars, oldVars, interval, feeds, appPc, kafkaCancelled, errCtxDone, errLogger, itemChanClosed,
                   drvVars, sigVars, roPc, pgPc, pgErrs, dec, errBuf, itemsRead, feedDefer,
                   poolVars, foldVars>>

\* runOnce: case <-exitChan, return errs (errChan is closed on return).
\* The first pass returns into appRun / runPeriodic, a later one into the
\* goroutine runPeriodic started for it.
RunOnceExit(p) ==
    /\ Alive /\ roPc[p] = "loop" /\ exitClosed[p]
    /\ roPc' = [roPc EXCEPT ![p] = "returned"]
    /\ IF p = 1
       THEN /\ IF interval = 0 \/ roErrs[p] # <<>>
               THEN appPc' = "report" /\ errs' = roErrs[p]
               ELSE appPc' = "loop" /\ errs' = <<>>
            /\ processing' = FALSE
            /\ runLoop' = TRUE
            /\ UNCHANGED <<pgPc, pgErrs>>
       ELSE /\ pgPc' = [pgPc EXCEPT ![p] = IF roErrs[p] = <<>> THEN "sendDone" ELSE "sendErr"]
            /\ pgErrs' = [pgErrs EXCEPT ![p] = roErrs[p]]
            /\ UNCHANGED <<appPc, errs, processing, runLoop>>
    /\ UNCHANGED <<priceVars, srvVars, cfgVars, metVars, pubVars, oldVars, interval, feeds, panicked, kafkaCancelled, errCtxDone, errLogger, itemChanClosed,
                   busyTick, passCount, sigVars, roErrs, exitClosed,
                   feedVars, poolVars, foldVars>>

\* ------------------------------------------------------------ runPeriodic
\* leaving the loop without waiting for the pass in flight
DriverBreaksAtOnce(proc, run) == ~run

\* the test at the end of every iteration of runPeriodic's loop
DriverBreaks(proc, run) == ~proc /\ ~run

\* a tick guard that forgets the pass in flight
TickStartsWhileBusy(proc, run) == run

\* does a tick start a pass: !processing && runLoop
TickStarts(proc, run) == ~proc /\ run

\* case <-chanCloseApp: a termination signal is received
DriverSignal ==
    /\ Alive /\ appPc = "loop" /\ sigCount < MaxSignals
    /\ sigCount' = sigCount + 1
    /\ errs' = Append(errs, "termination")
    /\ runLoop' = FALSE
    /\ appPc' = IF DriverBreaks(processing, FALSE) THEN "report" ELSE "loop"
    /\ UNCHANGED <<priceVars, srvVars, cfgVars, metVars, pubVars, oldVars, interval, feeds, panicked, kafkaCancelled, errCtxDone, errLogger, itemChanClosed,
                   processing, busyTick, passCount,
                   roVars, feedVars, poolVars, foldVars>>

\* case <-t.C: start a pass in a goroutine unless one is in flight or the
\* loop is being left
DriverTick ==
    /\ Alive /\ appPc = "loop"
    /\ busyTick' = (busyTick \/ processing)
    /\ IF TickStarts(processing, runLoop)
       THEN /\ passCount < MaxPasses
            /\ processing' = TRUE
            /\ StartPass(passCount + 1)
            /\ pgPc' = [pgPc EXCEPT ![passCount + 1] = "runOnce"]
       ELSE UNCHANGED <<processing, roPc, fg, passCount, pgPc>>
    /\ UNCHANGED <<priceVars, srvVars, cfgVars, metVars, pubVars, oldVars, appVars, runLoop, errs, sigVars, roErrs, exitClosed, pgErrs,
                   dec, errBuf, itemsRead, feedDefer, stream, poolVars, foldVars>>

\* case err = <-errChan that records the error and goes on running
PassSendErrKeepsRunning(p) ==
    /\ Alive /\ pgPc[p] = "sendErr"
    /\ appPc \notin {"pass1"}
    /\ IF appPc = "loop"
       THEN /\ errs' = Append(errs, Head(pgErrs[p]))
            /\ runLoop' = runLoop
            /\ pgErrs' = [pgErrs EXCEPT ![p] = Tail(@)]
            /\ pgPc' = [pgPc EXCEPT ![p] = IF Tail(pgErrs[p]) = <<>> THEN "sendDone" ELSE "sendErr"]
            /\ appPc' = IF DriverBreaks(processing, runLoop) THEN "report" ELSE "loop"
            /\ UNCHANGED panicked
       ELSE /\ panicked' = TRUE
            /\ UNCHANGED <<errs, runLoop, pgErrs, pgPc, appPc>>
    /\ UNCHANGED <<priceVars, srvVars, cfgVars, metVars, pubVars, oldVars, interval, feeds, kafkaCancelled, errCtxDone, errLogger, itemChanClosed,
                   processing, busyTick, passCount, sigVars,
                   roPc, roErrs, exitClosed, feedVars, poolVars, foldVars>>

\* errChan <- err of the pass goroutine, received by case err = <-errChan;
\* the send panics once runPeriodic has returned and closed errChan
PassSendErr(p) ==
    /\ Alive /\ pgPc[p] = "sendErr"
    /\ appPc \notin {"pass1"}
    /\ IF appPc = "loop"
       THEN /\ errs' = Append(errs, Head(pgErrs[p]))
            /\ runLoop' = FALSE
            /\ pgErrs' = [pgErrs EXCEPT ![p] = Tail(@)]
            /\ pgPc' = [pgPc EXCEPT ![p] = IF Tail(pgErrs[p]) = <<>> THEN "sendDone" ELSE "sendErr"]
            /\ appPc' = IF DriverBreaks(processing, FALSE) THEN "report" ELSE "loop"
            /\ UNCHANGED panicked
       ELSE /\ panicked' = TRUE
            /\ UNCHANGED <<errs, runLoop, pgErrs, pgPc, appPc>>
    /\ UNCHANGED <<priceVars, srvVars, cfgVars, metVars, pubVars, oldVars, interval, feeds, kafkaCancelled, errCtxDone, errLogger, itemChanClosed,
                   processing, busyTick, passCount, sigVars,
                   roPc, roErrs, exitClosed, feedVars, poolVars, foldVars>>

\* done <- struct{}{} of the pass goroutine, received by case <-done; the
\* send panics once runPeriodic has returned and closed done
PassSendDone(p) ==
    /\ Alive /\ pgPc[p] = "sendDone"
    /\ appPc \notin {"pass1"}
    /\ IF appPc = "loop"
       THEN /\ processing' = FALSE
            /\ pgPc' = [pgPc EXCEPT ![p] = "exited"]
            /\ appPc' = IF DriverBreaks(FALSE, runLoop) THEN "report" ELSE "loop"
            /\ UNCHANGED panicked
       ELSE /\ panicked' = TRUE
            /\ UNCHANGED <<processing, pgPc, appPc>>
    /\ UNCHANGED <<priceVars, srvVars, cfgVars, metVars, pubVars, oldVars, interval, feeds, kafkaCancelled, errCtxDone, errLogger, itemChanClosed,
                   runLoop, errs, busyTick, passCount, sigVars,
                   roPc, roErrs, exitClosed, pgErrs, feedVars, poolVars, foldVars>>

\* ---------------------------------------------------- CreateProducersPool
\* a send on chanKafkaItem that completes without a worker taking the job
FeedEnqueueDrops(p, f, w) ==
    /\ Alive /\ fg[p][f].pc = "enqueue"
    /\ IF itemChanClosed
       THEN /\ panicked' = TRUE
            /\ UNCHANGED <<fg, wk, consumed, sentOrder>>
       ELSE /\ sentOrder' = [sentOrder EXCEPT ![f] = Append(@, fg[p][f].item.id)]
            /\ fg' = [fg EXCEPT ![p][f] = [pc |-> "select", err |-> "nil", item |-> NoItem]]
            /\ UNCHANGED <<panicked, wk, consumed>>
    /\ UNCHANGED <<priceVars, srvVars, cfgVars, metVars, pubVars, oldVars, interval, feeds, appPc, kafkaCancelled, errCtxDone, errLogger, itemChanClosed,
                   drvVars, sigVars, roVars, dec, errBuf, itemsRead, feedDefer, stream,
                   chanRes, poolClosed, emitted, foldVars>>

\* chanKafkaItem <- appItem{...} of a consumer, received by a worker's
\* case item := <-chanItem; sending on the closed channel panics
FeedEnqueue(p, f, w) ==
    /\ Alive /\ fg[p][f].pc = "enqueue"
    /\ IF itemChanClosed
       THEN /\ panicked' = TRUE
            /\ UNCHANGED <<fg, wk, consumed, sentOrder>>
       ELSE /\ wk[w].pc = "select"
            /\ wk' = [wk EXCEPT ![w] = [pc |-> "busy", job |-> AppItem(fg[p][f].item, f)]]
            /\ consumed' = consumed \cup {<<f, fg[p][f].item.id>>}
            /\ sentOrder' = [sentOrder EXCEPT ![f] = Append(@, fg[p][f].item.id)]
            /\ fg' = [fg EXCEPT ![p][f] = [pc |-> "select", err |-> "nil", item |-> NoItem]]
            /\ UNCHANGED panicked
    /\ UNCHANGED <<priceVars, srvVars, cfgVars, metVars, pubVars, oldVars, interval, feeds, appPc, kafkaCancelled, errCtxDone, errLogger, itemChanClosed,
                   drvVars, sigVars, roVars, dec, errBuf, itemsRead, feedDefer, stream,
                   chanRes, poolClosed, emitted, foldVars>>

\* worker: chanRes <- p.putItemToKafka(item) for an item with a context
\* (chanRes has capacity 1)
WorkerPublish(w) ==
    /\ Alive /\ wk[w].pc = "busy"
    /\ IF wk[w].job.feed # NoCtx
       THEN /\ Len(chanRes) < 1
            /\ \E marshalOk \in BOOLEAN, acks \in [1..Len(wk[w].job.topics) -> AckKinds] :
                 LET res == PutItemToKafka(wk[w].job, marshalOk, acks)
                 IN /\ chanRes' = Append(chanRes, res)
                    /\ emitted' = Count(emitted, <<res.ctx, res.id>>)
       ELSE UNCHANGED <<chanRes, emitted>>
    /\ wk' = [wk EXCEPT ![w] = [pc |-> "select", job |-> NoJob]]
    /\ UNCHANGED <<priceVars, srvVars, cfgVars, metVars, pubVars, oldVars, appVars, drvVars, sigVars, roVars, feedVars, poolClosed, consumed, sentOrder, foldVars>>

\* worker: case <-p.ctx.Done()
WorkerExit(w) ==
    /\ Alive /\ wk[w].pc = "select" /\ kafkaCancelled
    /\ wk' = [wk EXCEPT ![w].pc = "exited"]
    /\ UNCHANGED <<priceVars, srvVars, cfgVars, metVars, pubVars, oldVars, appVars, drvVars, sigVars, roVars, feedVars,
                   chanRes, poolClosed, consumed, sentOrder, emitted, foldVars>>

\* pool goroutine: after wg.Wait(), close(chanRes); close(chanProducersExited)
PoolClose ==
    /\ Alive /\ ~poolClosed
    /\ \A w \in Workers : wk[w].pc = "exited"
    /\ poolClosed' = TRUE
    /\ UNCHANGED <<priceVars, srvVars, cfgVars, metVars, pubVars, oldVars, appVars, drvVars, sigVars, roVars, feedVars,
                   wk, chanRes, consumed, sentOrder, emitted, foldVars>>

\* -------------------------------------------------------- processKafkaRes
\* case res := <-chanKafkaRes: the total counter of the Result's feed
FoldRecv ==
    /\ Alive /\ foldPc = "select" /\ chanRes # <<>>
    /\ chanRes' = Tail(chanRes)
    /\ LET res == Head(chanRes)
           r == IncrementMetric(mc, res.ctx, "total")
       IN IF res.ctx # NoCtx
          THEN /\ r.err => errLogger = "running"
               /\ mc' = r.mc
               /\ foldPc' = "mid"
               /\ foldRes' = res
          ELSE UNCHANGED <<mc, foldPc, foldRes>>
    /\ UNCHANGED <<priceVars, srvVars, cfgVars, metVars, pubVars, oldVars, appVars, drvVars, sigVars, roVars, feedVars,
                   wk, poolClosed, consumed, sentOrder, emitted>>

\* a fold that reports res.Err and counts only the successes
FoldFinishForgetsFailed ==
    /\ Alive /\ foldPc = "mid"
    /\ IF foldRes.err # "nil"
       THEN errLogger = "running" /\ mc' = mc
       ELSE mc' = IncrementMetric(mc, foldRes.ctx, "succeeded").mc
    /\ foldPc' = "select"
    /\ foldRes' = NoRes
    /\ UNCHANGED <<priceVars, srvVars, cfgVars, metVars, pubVars, oldVars, appVars, drvVars, sigVars, roVars, feedVars, poolVars>>

\* the failed or the succeeded counter; res.Err goes to chanError
FoldFinish ==
    /\ Alive /\ foldPc = "mid"
    /\ LET r == IncrementMetric(mc, foldRes.ctx,
                                IF foldRes.err # "nil" THEN "failed" ELSE "succeeded")
       IN /\ (foldRes.err # "nil" \/ r.err) => errLogger = "running"
          /\ mc' = r.mc
    /\ foldPc' = "select"
    /\ foldRes' = NoRes
    /\ UNCHANGED <<priceVars, srvVars, cfgVars, metVars, pubVars, oldVars, appVars, drvVars, sigVars, roVars, feedVars, poolVars>>

\* case <-chanKafkaExited
FoldExit ==
    /\ Alive /\ foldPc = "select" /\ poolClosed
    /\ foldPc' = "exited"
    /\ UNCHANGED <<priceVars, srvVars, cfgVars, metVars, pubVars, oldVars, appVars, drvVars, sigVars, roVars, feedVars, poolVars, foldRes, mc>>

\* ------------------------------------------- the earlier runPeriodic loops
\* the errors one runOnce call of the earlier iterations returns: at most
\* one per feed
RunOnceOld == {[i \in 1..n |-> "feed"] : n \in 0..Cardinality(feeds)}

\* tick guard of the sync.Map iteration: !processing && len(errs) != 0
TickStartsSyncMap(proc, e) == ~proc /\ Len(e) # 0

\* tick guard of the metrics-container iteration: !processing && len(errs) == 0
TickStartsContainer(proc, e) == ~proc /\ Len(e) = 0

\* the two checks that end every iteration of the earlier loops
EndOfIterationOld(proc, e, run) ==
    IF ~proc /\ Len(e) # 0
    THEN oldPc' = "returned" /\ errsOld' = e
    ELSE IF ~proc /\ ~run
         THEN oldPc' = "returned" /\ errsOld' = <<"Got termination signal. Exiting">>
         ELSE oldPc' = "loop" /\ errsOld' = e

\* the first runOnce call, made before the loop
OldDriverStart ==
    /\ iteration # "context" /\ oldPc = "start"
    /\ \E e \in RunOnceOld :
         /\ errsOld' = e
         /\ oldPc' = IF Len(e) # 0 THEN "returned" ELSE "loop"
    /\ passesOld' = 1
    /\ UNCHANGED <<priceVars, srvVars, cfgVars, metVars, pubVars, iteration, processingOld, runApp, passOld, pendingOld, idleTicks,
                   appVars, drvVars, sigVars, roVars, feedVars, poolVars, foldVars>>

\* case <-chanCloseApp
OldDriverSignal ==
    /\ oldPc = "loop" /\ sigCount < MaxSignals
    /\ sigCount' = sigCount + 1
    /\ runApp' = FALSE
    /\ EndOfIterationOld(processingOld, errsOld, FALSE)
    /\ UNCHANGED <<priceVars, srvVars, cfgVars, metVars, pubVars, iteration, processingOld, passOld, pendingOld, passesOld, idleTicks,
                   appVars, drvVars, roVars, feedVars, poolVars, foldVars>>

\* case <-t.C
OldDriverTick ==
    /\ oldPc = "loop" /\ idleTicks < MaxPasses
    /\ idleTicks' = IF ~processingOld /\ errsOld = <<>> /\ runApp
                    THEN idleTicks + 1 ELSE idleTicks
    /\ IF IF iteration = "syncmap" THEN TickStartsSyncMap(processingOld, errsOld)
                                   ELSE TickStartsContainer(processingOld, errsOld)
       THEN /\ processingOld' = TRUE
            /\ passOld' = "runOnce"
            /\ passesOld' = passesOld + 1
            /\ EndOfIterationOld(TRUE, errsOld, runApp)
       ELSE /\ EndOfIterationOld(processingOld, errsOld, runApp)
            /\ UNCHANGED <<processingOld, passOld, passesOld>>
    /\ UNCHANGED <<priceVars, srvVars, cfgVars, metVars, pubVars, iteration, runApp, pendingOld,
                   appVars, drvVars, sigVars, roVars, feedVars, poolVars, foldVars>>

\* errs := runOnce(...) in the goroutine started on a tick
OldPassRunOnce ==
    /\ passOld = "runOnce"
    /\ \E e \in RunOnceOld :
         /\ pendingOld' = e
         /\ passOld' = IF Len(e) # 0 THEN "sendErr" ELSE "sendDone"
    /\ UNCHANGED <<priceVars, srvVars, cfgVars, metVars, pubVars, iteration, oldPc, processingOld, runApp, errsOld, passesOld, idleTicks,
                   appVars, drvVars, sigVars, roVars, feedVars, poolVars, foldVars>>

\* errChan <- err of that goroutine, received by case err = <-errChan
OldPassSendErr ==
    /\ passOld = "sendErr" /\ oldPc = "loop"
    /\ pendingOld' = Tail(pendingOld)
    /\ passOld' = IF Len(pendingOld) > 1 THEN "sendErr" ELSE "sendDone"
    /\ EndOfIterationOld(processingOld, Append(errsOld, Head(pendingOld)), runApp)
    /\ UNCHANGED <<priceVars, srvVars, cfgVars, metVars, pubVars, iteration, processingOld, runApp, passesOld, idleTicks,
                   appVars, drvVars, sigVars, roVars, feedVars, poolVars, foldVars>>

\* done <- struct{}{} of that goroutine, received by case <-done
OldPassSendDone ==
    /\ passOld = "sendDone" /\ oldPc = "loop"
    /\ processingOld' = FALSE
    /\ passOld' = "none"
    /\ EndOfIterationOld(FALSE, errsOld, runApp)
    /\ UNCHANGED <<priceVars, srvVars, cfgVars, metVars, pubVars, iteration, runApp, pendingOld, passesOld, idleTicks,
                   appVars, drvVars, sigVars, roVars, feedVars, poolVars, foldVars>>

\* ------------------------------------ putItemToKafka, step by step
\* the jobs runOnce can build
Jobs == {AppItem([id |-> i, cpc |-> c, valid |-> TRUE], f) : i \in 1..MaxItems, c \in CPCValues, f \in Feeds}

\* a call of putItemToKafka with any job and any broker
PubInit ==
    /\ InitPipeline /\ PriceIdle /\ iteration = "context" /\ interval = 0 /\ feeds = Feeds
    /\ pubPc = "marshal"
    /\ pubItem \in Jobs
    /\ pubMarshalOk \in BOOLEAN
    /\ pubAcks \in [1..Len(pubItem.topics) -> BrokerKinds]
    /\ pubTopic = 0
    /\ pubProduced = <<>>
    /\ pubRes = NoRes

\* a failed topic that does not end the loop
TopicFailedIgnored(err) == FALSE

\* if err != nil after sendMessageToKafka
TopicFailed(err) == err # "nil"

\* the loop over item.Topics() after the topic at index i: return res on an
\* error, go on with the next topic, or return res after the last one
AfterTopic(err, i) ==
    IF TopicFailed(err)
    THEN pubRes' = [pubRes EXCEPT !.err = err] /\ pubPc' = "done" /\ pubTopic' = i
    ELSE /\ pubRes' = pubRes
         /\ pubTopic' = i + 1
         /\ pubPc' = IF i + 1 > Len(pubItem.topics) THEN "done" ELSE "produce"

\* res := Result{...}; message, err := item.Marshal()
PubMarshal ==
    /\ pubPc = "marshal"
    /\ IF ~pubMarshalOk
       THEN /\ pubRes' = [ctx |-> pubItem.feed, id |-> pubItem.id, err |-> "marshal"]
            /\ pubPc' = "done"
            /\ pubTopic' = pubTopic
       ELSE /\ pubRes' = [ctx |-> pubItem.feed, id |-> pubItem.id, err |-> "nil"]
            /\ pubTopic' = 1
            /\ pubPc' = IF Len(pubItem.topics) = 0 THEN "done" ELSE "produce"
    /\ UNCHANGED <<pubItem, pubMarshalOk, pubAcks, pubProduced, mainVars>>

\* sendMessageToKafka: p.kafkaProducer.Produce(km, deliveryChan)
PubProduce ==
    /\ pubPc = "produce"
    /\ pubProduced' = Append(pubProduced, pubItem.topics[pubTopic])
    /\ IF pubAcks[pubTopic] = "produceErr"
       THEN AfterTopic(SendMessageToKafka(pubAcks[pubTopic]), pubTopic)
       ELSE pubPc' = "await" /\ UNCHANGED <<pubRes, pubTopic>>
    /\ UNCHANGED <<pubItem, pubMarshalOk, pubAcks, mainVars>>

\* sendMessageToKafka: ke := <-deliveryChan and what follows
PubAck ==
    /\ pubPc = "await"
    /\ pubAcks[pubTopic] # "ackNone"
    /\ AfterTopic(SendMessageToKafka(pubAcks[pubTopic]), pubTopic)
    /\ UNCHANGED <<pubItem, pubMarshalOk, pubAcks, pubProduced, mainVars>>

PubNext == PubMarshal \/ PubProduce \/ PubAck

PublishSpec == PubInit /\ [][PubNext]_vars

\* ------------------------------------------ Price.UnmarshalText, one call
\* a PRICE_VAT, HEUREKA_CPC or DELIVERY_PRICE element with any text
PriceInit ==
    /\ InitPipeline /\ PubIdle
    /\ iteration = "context" /\ interval = 0 /\ feeds = Feeds
    /\ priceText \in Texts
    /\ priceRes = NoPrice

\* err := p.UnmarshalText(text)
PriceUnmarshal ==
    /\ ~priceRes.done
    /\ priceRes' = PriceUnmarshalText(priceText)
    /\ UNCHANGED <<priceText, srvVars, cfgVars, metVars, pubVars, oldVars, appVars, drvVars, sigVars,
                   roVars, feedVars, poolVars, foldVars>>

PriceNext == PriceUnmarshal

PriceSpec == PriceInit /\ [][PriceNext]_vars

\* ------------------------------------------- metrics.Container, call by call
\* the keys and kinds a caller may pass: the feeds and the empty key, the
\* four metric types and a string that is none of them
CallKeys == Feeds \cup {NoCtx}
CallKinds == MetricKinds \cup {"other"}

\* the containers of the tests: any feeds, each with any of the kinds
Containers ==
    UNION {[S -> {[k \in K |-> 0] : K \in SUBSET MetricKinds}] : S \in SUBSET Feeds}

MetricsInit ==
    /\ InitIdle /\ InitContext /\ InitNotStarted /\ PubIdle /\ PriceIdle
    /\ iteration = "context" /\ interval = 0 /\ feeds = Feeds
    /\ mc \in Containers

\* everything but the container and the record of the call
notMetVars == <<priceVars, srvVars, cfgVars, pubVars, oldVars, appVars, drvVars, sigVars, roVars, feedVars, poolVars, foldPc, foldRes>>

\* _, err := c.GetMetric(key, typeMetric)
MetGet ==
    /\ metCall.n < MaxCalls
    /\ \E key \in CallKeys, kind \in CallKinds :
         metCall' = [n |-> metCall.n + 1, op |-> "get", key |-> key, kind |-> kind,
                     err |-> ~GetMetric(mc, key, kind)]
    /\ UNCHANGED <<mc, notMetVars>>

\* err := c.IncrementMetric(key, metricType)
MetIncrement ==
    /\ metCall.n < MaxCalls
    /\ \E key \in CallKeys, kind \in CallKinds :
         LET r == IncrementMetric(mc, key, kind)
         IN /\ mc' = r.mc
            /\ metCall' = [n |-> metCall.n + 1, op |-> "inc", key |-> key, kind |-> kind,
                           err |-> r.err]
    /\ UNCHANGED notMetVars

MetricsNext == MetGet \/ MetIncrement

MetricsSpec == MetricsInit /\ [][MetricsNext]_vars

\* ------------------------------- CreateProducersPool with any context
\* the Result of a pool whose context has no int under MaxProducersCtxKey
ConfigErrRes == [ctx |-> NoCtx, id |-> 0, err |-> "config"]

\* a Producer whose context may lack the max-producers value, before
\* CreateProducersPool is called
PoolInit ==
    /\ InitIdle /\ InitNotStarted /\ PubIdle /\ PriceIdle
    /\ iteration = "context" /\ interval = 0 /\ feeds = Feeds
    /\ mc = NewMetrics(feeds)
    /\ maxProducersOk \in BOOLEAN

\* everything but the pool
notPoolVars == <<priceVars, srvVars, cfgVars, metVars, pubVars, oldVars, interval, feeds, appPc, panicked, errCtxDone, errLogger,
                 drvVars, sigVars, roVars, feedVars, foldVars>>

\* CreateProducersPool that reports the configuration error and leaves
\* both channels open
PoolCreateLeavesOpen ==
    /\ \A w \in Workers : wk[w].pc = "none"
    /\ ~poolClosed /\ chanRes = <<>>
    /\ IF maxProducersOk
       THEN /\ wk' = [w \in Workers |-> [pc |-> "select", job |-> NoJob]]
            /\ UNCHANGED <<chanRes, emitted, poolClosed>>
       ELSE /\ chanRes' = <<ConfigErrRes>>
            /\ emitted' = Count(emitted, <<ConfigErrRes.ctx, ConfigErrRes.id>>)
            /\ UNCHANGED <<wk, poolClosed>>
    /\ UNCHANGED <<notPoolVars, kafkaCancelled, itemChanClosed, consumed, sentOrder>>

\* CreateProducersPool: without an int max-producers value the deferred
\* function sends one Result with the error into chanRes (capacity 1) and
\* closes both channels; otherwise the pool goroutine starts the workers
PoolCreate ==
    /\ \A w \in Workers : wk[w].pc = "none"
    /\ ~poolClosed /\ chanRes = <<>>
    /\ IF maxProducersOk
       THEN /\ wk' = [w \in Workers |-> [pc |-> "select", job |-> NoJob]]
            /\ UNCHANGED <<chanRes, emitted, poolClosed>>
       ELSE /\ chanRes' = <<ConfigErrRes>>
            /\ emitted' = Count(emitted, <<ConfigErrRes.ctx, ConfigErrRes.id>>)
            /\ poolClosed' = TRUE
            /\ UNCHANGED wk
    /\ UNCHANGED <<notPoolVars, kafkaCancelled, itemChanClosed, consumed, sentOrder>>

\* chanItem <- i of a caller, received by a worker's case item := <-chanItem
PoolOffer(w) ==
    /\ wk[w].pc = "select" /\ ~itemChanClosed
    /\ Cardinality(consumed) < MaxItems
    /\ \E f \in Feeds, c \in CPCValues :
         LET job == AppItem([id |-> Cardinality(consumed) + 1, cpc |-> c, valid |-> TRUE], f)
         IN /\ wk' = [wk EXCEPT ![w] = [pc |-> "busy", job |-> job]]
            /\ consumed' = consumed \cup {JobKey(job)}
    /\ UNCHANGED <<notPoolVars, kafkaCancelled, itemChanClosed, chanRes, poolClosed, sentOrder, emitted>>

\* worker inside putItemToKafka: Produce has taken the message and no event
\* ever arrives on deliveryChan
WorkerAwaitsAck(w) ==
    /\ wk[w].pc = "busy" /\ wk[w].job.feed # NoCtx
    /\ wk' = [wk EXCEPT ![w].pc = "await"]
    /\ UNCHANGED <<notPoolVars, kafkaCancelled, itemChanClosed, chanRes, poolClosed, consumed, sentOrder, emitted>>

\* the caller's cancelFunc()
PoolCancel ==
    /\ ~kafkaCancelled
    /\ kafkaCancelled' = TRUE
    /\ UNCHANGED <<notPoolVars, itemChanClosed, poolVars>>

\* res := <-resChan of the caller
PoolDrain ==
    /\ chanRes # <<>>
    /\ chanRes' = Tail(chanRes)
    /\ UNCHANGED <<notPoolVars, kafkaCancelled, itemChanClosed, wk, poolClosed, consumed, sentOrder, emitted>>

PoolNext ==
    \/ PoolCreate
    \/ \E w \in Workers : PoolOffer(w)
    \/ \E w \in Workers : WorkerPublish(w)
    \/ \E w \in Workers : WorkerAwaitsAck(w)
    \/ \E w \in Workers : WorkerExit(w)
    \/ PoolCancel
    \/ PoolDrain
    \/ PoolClose

PoolSpec == PoolInit /\ [][PoolNext]_vars

\* ----------------------------------- runOnce with any MetricsGetter
\* a call runOnce(feeds, chanKafkaItem, mg) whose mg holds the metrics of
\* any subset of the feeds, with the pool and processKafkaRes running
RunOnceInit ==
    /\ InitIdle /\ InitContext /\ PubIdle /\ PriceIdle
    /\ iteration = "context" /\ interval = 0
    /\ appPc = "pass1"
    /\ passCount = 1
    /\ roPc = [p \in Passes |-> IF p = 1 THEN "loop" ELSE "idle"]
    /\ fg = [p \in Passes |-> [f \in Feeds |->
               [pc |-> IF p = 1 /\ f \in feeds THEN "open" ELSE "none", err |-> "nil", item |-> NoItem]]]
    /\ wk = [w \in Workers |-> [pc |-> "select", job |-> NoJob]]
    /\ foldPc = "select"
    /\ mc \in {NewMetrics(S) : S \in SUBSET feeds}

RunOnceNext ==
    \/ \E f \in Feeds : FeedOpen(1, f)
    \/ \E f \in Feeds : FeedMetricErr(1, f)
    \/ \E f \in Feeds : FeedOuterReturn(1, f)
    \/ \E f \in Feeds : DecEOF(1, f)
    \/ \E f \in Feeds : DecSendErr(1, f)
    \/ \E f \in Feeds : DecSendSkipErr(1, f)
    \/ \E f \in Feeds : DecSendBlocked(1, f)
    \/ \E f \in Feeds : FeedRecvItem(1, f)
    \/ \E f \in Feeds : FeedRecvErr(1, f)
    \/ \E f \in Feeds : FeedReport(1, f)
    \/ \E f \in Feeds, w \in Workers : FeedEnqueue(1, f, w)
    \/ RunOnceExit(1)
    \/ \E w \in Workers : WorkerPublish(w)
    \/ FoldRecv
    \/ FoldFinish

RunOnceSpec == RunOnceInit /\ [][RunOnceNext]_vars

\* ------------------------------------- runPeriodic, statement by statement
\* a call of runPeriodic in which every runOnce call returns any list of
\* errors, before its first statement
DriverInit ==
    /\ InitIdle /\ InitContext /\ PubIdle /\ PriceIdle
    /\ iteration = "context" /\ interval = 1
    /\ appPc = "call"
    /\ passCount = 0
    /\ roPc = [p \in Passes |-> "idle"]
    /\ fg = [p \in Passes |-> [f \in Feeds |-> [pc |-> "none", err |-> "nil", item |-> NoItem]]]
    /\ wk = [w \in Workers |-> [pc |-> "select", job |-> NoJob]]
    /\ foldPc = "select"
    /\ mc = NewMetrics(feeds)

\* everything but the locals of runPeriodic and its pass goroutines
notDriverVars == <<priceVars, srvVars, cfgVars, metVars, pubVars, oldVars, interval, feeds, kafkaCancelled,
                   errCtxDone, errLogger, itemChanClosed, roPc, roErrs, exitClosed, feedVars, poolVars, foldVars>>

\* t := time.NewTicker(interval) and the call of the first runOnce
RunPeriodicStart ==
    /\ appPc = "call"
    /\ appPc' = "pass1"
    /\ passCount' = 1
    /\ UNCHANGED <<notDriverVars, panicked, processing, runLoop, errs, busyTick, sigCount, pgPc, pgErrs>>

\* errs := runOnce(feeds, chanKafkaItem, metrics) returns
RunPeriodicFirstPass ==
    /\ appPc = "pass1"
    /\ \E e \in RunOnceOld : errs' = e
    /\ appPc' = "checkFirst"
    /\ UNCHANGED <<notDriverVars, panicked, processing, runLoop, busyTick, passCount, sigCount, pgPc, pgErrs>>

\* if len(errs) != 0 { return errs }, else the locals and channels of the loop
RunPeriodicFirstCheck ==
    /\ appPc = "checkFirst"
    /\ appPc' = IF Len(errs) # 0 THEN "report" ELSE "loop"
    /\ processing' = FALSE
    /\ runLoop' = TRUE
    /\ UNCHANGED <<notDriverVars, panicked, errs, busyTick, passCount, sigCount, pgPc, pgErrs>>

\* case <-chanCloseApp
RunPeriodicSignal ==
    /\ appPc = "loop" /\ sigCount < MaxSignals
    /\ sigCount' = sigCount + 1
    /\ errs' = Append(errs, "termination")
    /\ runLoop' = FALSE
    /\ appPc' = "check"
    /\ UNCHANGED <<notDriverVars, panicked, processing, busyTick, passCount, pgPc, pgErrs>>

\* case <-t.C
RunPeriodicTick ==
    /\ appPc = "loop"
    /\ busyTick' = (busyTick \/ processing)
    /\ IF TickStarts(processing, runLoop)
       THEN /\ passCount < MaxPasses
            /\ processing' = TRUE
            /\ passCount' = passCount + 1
            /\ pgPc' = [pgPc EXCEPT ![passCount + 1] = "runOnce"]
       ELSE UNCHANGED <<processing, passCount, pgPc>>
    /\ appPc' = "check"
    /\ UNCHANGED <<notDriverVars, panicked, runLoop, errs, sigCount, pgErrs>>

\* the pass goroutine: errs := runOnce(feeds, chanKafkaItem, metrics) returns
PassRunOnce(p) ==
    /\ pgPc[p] = "runOnce"
    /\ \E e \in RunOnceOld :
         /\ pgErrs' = [pgErrs EXCEPT ![p] = e]
         /\ pgPc' = [pgPc EXCEPT ![p] = IF e = <<>> THEN "sendDone" ELSE "sendErr"]
    /\ UNCHANGED <<notDriverVars, panicked, appPc, processing, runLoop, errs, busyTick, passCount, sigCount>>

\* errChan <- err of the pass goroutine, received by case err = <-errChan;
\* the send panics once runPeriodic has returned and closed errChan
RunPeriodicRecvErr(p) ==
    /\ Alive /\ pgPc[p] = "sendErr"
    /\ appPc \in {"loop", "report"}
    /\ IF appPc = "loop"
       THEN /\ errs' = Append(errs, Head(pgErrs[p]))
            /\ runLoop' = FALSE
            /\ pgErrs' = [pgErrs EXCEPT ![p] = Tail(@)]
            /\ pgPc' = [pgPc EXCEPT ![p] = IF Tail(pgErrs[p]) = <<>> THEN "sendDone" ELSE "sendErr"]
            /\ appPc' = "check"
            /\ UNCHANGED panicked
       ELSE /\ panicked' = TRUE
            /\ UNCHANGED <<errs, runLoop, pgErrs, pgPc, appPc>>
    /\ UNCHANGED <<notDriverVars, processing, busyTick, passCount, sigCount>>

\* a case <-done that also sets runLoop again
RunPeriodicRecvDoneResumes(p) ==
    /\ Alive /\ pgPc[p] = "sendDone"
    /\ appPc \in {"loop", "report"}
    /\ IF appPc = "loop"
       THEN /\ processing' = FALSE
            /\ runLoop' = TRUE
            /\ pgPc' = [pgPc EXCEPT ![p] = "exited"]
            /\ appPc' = "check"
            /\ UNCHANGED panicked
       ELSE /\ panicked' = TRUE
            /\ UNCHANGED <<processing, runLoop, pgPc, appPc>>
    /\ UNCHANGED <<notDriverVars, errs, busyTick, passCount, sigCount, pgErrs>>

\* done <- struct{}{} of the pass goroutine, received by case <-done; the
\* send panics once runPeriodic has returned and closed done
RunPeriodicRecvDone(p) ==
    /\ Alive /\ pgPc[p] = "sendDone"
    /\ appPc \in {"loop", "report"}
    /\ IF appPc = "loop"
       THEN /\ processing' = FALSE
            /\ runLoop' = runLoop
            /\ pgPc' = [pgPc EXCEPT ![p] = "exited"]
            /\ appPc' = "check"
            /\ UNCHANGED panicked
       ELSE /\ panicked' = TRUE
            /\ UNCHANGED <<processing, runLoop, pgPc, appPc>>
    /\ UNCHANGED <<notDriverVars, errs, busyTick, passCount, sigCount, pgErrs>>

\* a loop that is left as soon as runLoop is false
RunPeriodicBreakOnStop ==
    /\ appPc = "check"
    /\ appPc' = IF ~runLoop THEN "report" ELSE "loop"
    /\ UNCHANGED <<notDriverVars, panicked, processing, runLoop, errs, busyTick, passCount, sigCount, pgPc, pgErrs>>

\* if !processing && !runLoop { break }, and return errs with the deferred
\* close(errChan), close(done)
RunPeriodicBreak ==
    /\ appPc = "check"
    /\ appPc' = IF DriverBreaks(processing, runLoop) THEN "report" ELSE "loop"
    /\ UNCHANGED <<notDriverVars, panicked, processing, runLoop, errs, busyTick, passCount, sigCount, pgPc, pgErrs>>

DriverNext ==
    \/ RunPeriodicStart
    \/ RunPeriodicFirstPass
    \/ RunPeriodicFirstCheck
    \/ RunPeriodicSignal
    \/ RunPeriodicTick
    \/ \E p \in Passes : PassRunOnce(p)
    \/ \E p \in Passes : RunPeriodicRecvErr(p)
    \/ \E p \in Passes : RunPeriodicRecvDone(p)
    \/ RunPeriodicBreak

DriverSpec == DriverInit /\ [][DriverNext]_vars

\* --------------------------------------------------------------- the system
Next ==
    \/ AppStart
    \/ AppReport
    \/ AppCancel
    \/ AppReturn
    \/ ErrLoggerExit
    \/ MetricsServerExit
    \/ RedirectorExit
    \/ DriverSignal
    \/ DriverTick
    \/ \E p \in Passes : PassSendErr(p)
    \/ \E p \in Passes : PassSendDone(p)
    \/ \E p \in Passes : RunOnceExit(p)
    \/ \E p \in Passes, f \in Feeds : DecEOF(p, f)
    \/ \E p \in Passes, f \in Feeds : DecSendErr(p, f)
    \/ \E p \in Passes, f \in Feeds : DecSendSkipErr(p, f)
    \/ \E p \in Passes, f \in Feeds : DecSendBlocked(p, f)
    \/ \E p \in Passes, f \in Feeds : FeedOpen(p, f)
    \/ \E p \in Passes, f \in Feeds : FeedOuterReturn(p, f)
    \/ \E p \in Passes, f \in Feeds : FeedRecvItem(p, f)
    \/ \E p \in Passes, f \in Feeds : FeedRecvErr(p, f)
    \/ \E p \in Passes, f \in Feeds : FeedReport(p, f)
    \/ \E p \in Passes, f \in Feeds, w \in Workers : FeedEnqueue(p, f, w)
    \/ \E w \in Workers : WorkerPublish(w)
    \/ \E w \in Workers : WorkerExit(w)
    \/ PoolClose
    \/ FoldRecv
    \/ FoldFinish
    \/ FoldExit
    \/ OldDriverStart
    \/ OldDriverSignal
    \/ OldDriverTick
    \/ OldPassRunOnce
    \/ OldPassSendErr
    \/ OldPassSendDone

Spec == Init /\ [][Next]_vars

\* every goroutine that can run eventually does
FairSpec == Spec /\ WF_vars(Next)

\* ------------------------------------------------------------ definitions
\* the goroutine runPeriodic spawned for pass p has not yet signalled done
InFlight(p) == pgPc[p] \in {"runOnce", "sendErr", "sendDone"}

\* runPeriodic has returned into appRun
DriverReturned == interval = 1 /\ appPc \in {"report", "cancel", "wait", "returned"}

\* some pass has returned at least one error
PassFailed == \E p \in Passes : roPc[p] = "returned" /\ roErrs[p] # <<>>

Held(k) == Cardinality({w \in Workers : wk[w].pc = "busy" /\ JobKey(wk[w].job) = k})
Sent(k) == IF k \in DOMAIN emitted THEN emitted[k] ELSE 0
ConsumedOf(f) == Cardinality({k \in consumed : k[1] = f})

\* ----------------------------------------------------------------- claims
\* C1: once the pool is cancelled and processKafkaRes has returned, the
\* total counter of every feed equals the number of jobs of that feed the
\* workers received (every Result folded exactly once).
C1_EveryResultFolded ==
    (kafkaCancelled /\ foldPc = "exited") =>
        \A f \in feeds : mc[f]["total"] = ConsumedOf(f)

\* C2: whenever processKafkaRes is not in the middle of folding a Result,
\* succeeded + failed = total for every configured feed.
C2_Accounting ==
    foldPc # "mid" =>
        \A f \in feeds : mc[f]["succeeded"] + mc[f]["failed"] = mc[f]["total"]

C2_Witness ==
    /\ foldPc = "select"
    /\ \E f \in feeds : mc[f]["failed"] = 1 /\ mc[f]["total"] = 1

C4_SinglePass ==
    /\ [](Cardinality({p \in Passes : roPc[p] = "loop"}) <= 1)
    /\ [][(DriverTick /\ \E p \in Passes : InFlight(p)) =>
            UNCHANGED <<processing, runLoop, errs, passCount, roPc, pgPc>>]_vars

C4_Witness == busyTick /\ \E p \in Passes : InFlight(p)

\* C5: runOnce has returned only if every per-feed goroutine and decoder of
\* that pass has finished.
C5_RunOnceWaitsForFeeds ==
    \A p \in Passes : roPc[p] = "returned" =>
        \A f \in feeds : fg[p][f].pc = "done" /\ dec[p][f] \in {"none", "done"}

\* C6: in each of the three runPeriodic functions the first pass runs at
\* once, and every tick received with no pass in flight, no error collected
\* and no termination signal received starts the next pass.
C6_IdleTickStartsPass ==
    /\ [](appPc = "loop" => passCount >= 1)
    /\ [][(DriverTick /\ ~processing /\ runLoop /\ errs = <<>>) =>
            passCount' = passCount + 1]_vars
    /\ [](oldPc # "start" => passesOld = 1 + idleTicks)

\* C7: once a pass has returned an error no pass is started; an error of
\* the first pass makes runPeriodic return at once, and after an error of a
\* later pass runPeriodic returns only when that pass has signalled done.
C7_NoPassAfterError ==
    /\ [][PassFailed => passCount' = passCount]_vars
    /\ []((interval = 1 /\ roPc[1] = "returned" /\ roErrs[1] # <<>>) => appPc # "loop")
    /\ []((PassFailed /\ DriverReturned) => \A p \in Passes : ~InFlight(p))

C7_Witness ==
    /\ appPc = "report"
    /\ \E p \in Passes : p > 1 /\ roPc[p] = "returned" /\ roErrs[p] # <<>>

\* C8: after a termination signal runPeriodic returns, and appRun cancels
\* the pool, only when the pass in flight has signalled done, and no pass
\* is started after the signal.
C8_GracefulTermination ==
    /\ []((sigCount > 0 /\ (DriverReturned \/ kafkaCancelled)) =>
            \A p \in Passes : ~InFlight(p))
    /\ [][sigCount > 0 => passCount' = passCount]_vars

C8_Witness == sigCount > 0 /\ appPc = "loop" /\ \E p \in Passes : InFlight(p)

\* C9: when appRun has cancelled the pool, no per-feed goroutine still
\* holds a record it has to send to the workers.
C9_NothingLeftAtCancel ==
    (kafkaCancelled /\ passCount > 0) =>
        \A p \in Passes, f \in Feeds : fg[p][f].pc # "enqueue"

\* C10: in one-shot mode appRun returns: when the single pass has returned
\* and no goroutine of the process can take a step any more, appRun has
\* returned (or a panic has ended the process).
C10_OneShotReturns ==
    (interval = 0 /\ roPc[1] = "returned" /\ ~ENABLED Next) =>
        (appPc = "returned" \/ panicked)

\* C11: the value appRun returns is nil exactly when the run was clean: at
\* its last statements, with the errors of the run (a failed pass, a
\* termination signal) in errs, the value it is about to return is non-nil
\* iff errs is not empty.
C11_ExitCodeReflectsRun ==
    appPc = "wait" => (AppRunResult(appPc) = "nil" <=> errs = <<>>)

\* C12: when runPeriodic has returned because of termination signals and no
\* pass failed, it returns exactly one error, the termination error.
C12_SingleTerminationError ==
    (DriverReturned /\ sigCount > 0 /\ ~PassFailed) => errs = <<"termination">>

\* C13: the job of every record a per-feed runner sends to the workers has
\* shop_items among its topics, and shop_items_bidding iff the record's CPC
\* is greater than zero.
C13_TopicsByCPC ==
    \A p \in Passes, f \in Feeds :
        fg[p][f].pc = "enqueue" =>
            LET topics == AppItem(fg[p][f].item, f).topics
                has(t) == \E i \in 1..Len(topics) : topics[i] = t
            IN /\ has(TopicShopItems)
               /\ has(TopicShopItemsBidding) <=> fg[p][f].item.cpc > 0

Prefix(a, b) == Len(a) <= Len(b) /\ \A i \in 1..Len(a) : a[i] = b[i]

\* C14: putItemToKafka hands the job's topics to the broker in the order of
\* the topic-set, each at most once and no other topic; it stops at the
\* first topic whose submission or delivery fails, the Result carries that
\* error, and the Result's error is nil only if every topic succeeded.
C14_StopsAtFirstFailure ==
    /\ Prefix(pubProduced, pubItem.topics)
    /\ ~pubMarshalOk => pubProduced = <<>>
    /\ pubPc = "done" =>
         /\ pubRes.ctx = pubItem.feed /\ pubRes.id = pubItem.id
         /\ pubRes.err = "nil" <=>
                (pubMarshalOk /\ \A i \in 1..Len(pubItem.topics) : pubAcks[i] = "ackOk")
         /\ pubRes.err \notin {"nil", "marshal"} =>
                LET n == Len(pubProduced)
                IN /\ n >= 1
                   /\ pubAcks[n] \in {"produceErr", "ackErr", "ackOther"}
                   /\ \A i \in 1..(n - 1) : pubAcks[i] = "ackOk"
         /\ pubRes = PutItemToKafka(pubItem, pubMarshalOk, pubAcks)

C14_Witness ==
    /\ pubPc = "done" /\ pubRes.err = "delivery"
    /\ Len(pubItem.topics) = 2 /\ Len(pubProduced) = 1

\* C15: sendMessageToKafka classifies every outcome: a failed Produce gives
\* the send error without any wait for an acknowledgement, an acknowledged
\* message with a delivery error gives the delivery error, an event that is
\* no message gives the cast error, and only a message without error gives
\* nil.
C15_PublishOutcomes ==
    /\ [](pubPc = "await" => pubAcks[pubTopic] # "produceErr")
    /\ [][(pubPc = "produce" /\ pubAcks[pubTopic] = "produceErr") =>
            (pubPc' = "done" /\ pubRes'.err = "send")]_vars
    /\ [][pubPc = "await" =>
            pubRes'.err = CASE pubAcks[pubTopic] = "ackErr" -> "delivery"
                            [] pubAcks[pubTopic] = "ackOther" -> "cast"
                            [] pubAcks[pubTopic] = "ackOk" -> "nil"]_vars

C15_Witness == pubPc = "done" /\ pubRes.err = "cast" /\ Len(pubProduced) = 2

\* C16: the wait for a delivery acknowledgement ends: a call of
\* putItemToKafka that can take no further step has returned its Result.
C16_AckWaitBounded == ~ENABLED PubNext => pubPc \in {"idle", "done"}

\* C17: a per-item decode error does not end the feed: a per-feed runner
\* that has stopped reading its feed because of a per-item error has a
\* decoder that reached the end of the stream, so no SHOPITEM after the bad
\* one is left unread.
C17_FeedContinuesAfterItemError ==
    \A p \in Passes, f \in Feeds :
        (fg[p][f].pc \in {"report", "done"} /\ fg[p][f].err = "item") =>
            dec[p][f] = "done"

\* C18: every record a per-feed runner sends to the workers is a SHOPITEM
\* that decoded without error; a SHOPITEM that failed to decode reaches
\* neither the consumer nor the workers.
C18_OnlyValidRecords ==
    \A p \in Passes, f \in Feeds :
        fg[p][f].item # NoItem => (fg[p][f].item.valid /\ fg[p][f].item.id # 0)

C18_Witness ==
    \E p \in Passes, f \in Feeds :
        /\ errBuf[p][f] = <<"item">>
        /\ fg[p][f].pc = "enqueue" /\ fg[p][f].item.valid

\* C19: when the stream of a feed cannot be opened, runOnce has that error
\* among the errors it returns and returns only when every other feed of
\* the pass has been processed to its end.
C19_OpenFailureLeavesOthers ==
    \A p \in Passes, f \in feeds :
        (roPc[p] = "returned" /\ fg[p][f].err = "open") =>
            /\ \E i \in 1..Len(roErrs[p]) : roErrs[p][i] = "open"
            /\ \A g \in feeds \ {f} : fg[p][g].pc = "done"

\* C20: a stream-level decode error (a failed Skip) ends the feed for the
\* pass and runOnce returns an error for that feed; no counter and no job
\* already received by a worker is taken back.
C20_StreamErrorEndsFeed ==
    /\ [](\A p \in Passes, f \in feeds :
            (roPc[p] = "returned" /\ (dec[p][f] = "sendSkipErr" \/ errBuf[p][f] = <<"skip">>)) =>
                (fg[p][f].pc = "done" /\ roErrs[p] # <<>>))
    /\ [][/\ consumed \subseteq consumed'
          /\ \A f \in feeds, k \in MetricKinds \ {"feed"} : mc'[f][k] >= mc[f][k]]_vars

\* the number of occurrences of e in the sequence q
Occurrences(q, e) == Cardinality({i \in 1..Len(q) : q[i] = e})

\* C21: when runOnce has returned, it has collected exactly one "Failed to
\* get metric" error for every feed whose stream was opened and whose gauge
\* is not in the container, and such a feed goes on to be decoded: the
\* only step a feed takes from the missing metric is into its consumer loop.
C21_MissingMetricReported ==
    /\ [](roPc[1] = "returned" =>
            Occurrences(roErrs[1], "metric") =
                Cardinality({f \in feeds : stream[1][f] # "none" /\ ~GetMetric(mc, f, "feed")}))
    /\ [][\A f \in feeds : fg[1][f].pc = "metricErr" =>
              \/ fg'[1][f].pc = "metricErr"
              \/ fg'[1][f].pc = "select" /\ dec'[1][f] = "read"]_vars

\* the consumer of feed f is reading the decoder's channels or enqueueing
\* a record in pass p
BeingProcessed(p, f) == fg[p][f].pc \in {"select", "enqueue"}

\* C22: the gauge of a feed is 1 as long as the feed's stream is being
\* decoded and its records enqueued, and 0 when no pass is processing the
\* feed (before the pass and after the feed has ended).
C22_GaugeFollowsFeed ==
    \A f \in feeds :
        /\ (\E p \in Passes : BeingProcessed(p, f)) => mc[f]["feed"] = 1
        /\ (\A p \in Passes : fg[p][f].pc \in {"none", "done"}) => mc[f]["feed"] = 0

\* C23: a GetMetric or IncrementMetric call with a key or a kind the
\* container does not hold returns an error and leaves the container as it
\* is (no entry is made, no counter moves); GetMetric never changes the
\* container; IncrementMetric with a key and kind it holds returns no
\* error, adds exactly 1 to that metric and leaves every other metric and
\* the set of entries as they are.
C23_MissingMetricIsAnError ==
    [][metCall'.n # metCall.n =>
         LET c == metCall'
             held == c.key \in DOMAIN mc /\ c.kind \in DOMAIN mc[c.key]
         IN /\ c.err <=> ~held
            /\ (~held \/ c.op = "get") => mc' = mc
            /\ (held /\ c.op = "inc") =>
                  /\ DOMAIN mc' = DOMAIN mc
                  /\ \A k \in DOMAIN mc :
                        /\ DOMAIN mc'[k] = DOMAIN mc[k]
                        /\ \A t \in DOMAIN mc[k] :
                              mc'[k][t] = mc[k][t] + (IF k = c.key /\ t = c.kind THEN 1 ELSE 0)]_vars

C23_Witness ==
    /\ metCall.op = "inc" /\ metCall.err /\ metCall.key \in DOMAIN mc
    /\ \E t \in DOMAIN mc[metCall.key] : mc[metCall.key][t] = 1

\* C24: every stream a per-feed goroutine opened is closed in the end: when
\* no goroutine of the process can take a step any more (and no panic has
\* ended the process), no stream is still open.
C24_StreamsClosed ==
    (~panicked /\ ~ENABLED Next) =>
        \A p \in Passes, f \in Feeds : stream[p][f] # "open"

\* C25: the records of one feed are sent to the workers in document
\* order: of any two records sent, the one sent first stands first in the
\* stream (the passes of a feed follow one another, and the positions count
\* on from pass to pass).
C25_DocumentOrder ==
    \A f \in Feeds :
        \A i, j \in 1..Len(sentOrder[f]) :
            i < j => sentOrder[f][i] < sentOrder[f][j]

C25_Witness ==
    \E f \in Feeds : Len(sentOrder[f]) = 2 /\ fg[1][f].pc = "select"

\* C26: once the pool's context is cancelled and the Results are being
\* read, every worker exits and the pool closes its two channels: when
\* nothing can move any more in a cancelled pool, every worker has left
\* its loop and the channels are closed; a worker that has left its loop
\* takes no further job; and the channels, once closed, are not closed
\* again.
C26_WorkersExitOnCancel ==
    /\ []((kafkaCancelled /\ maxProducersOk /\ ~ENABLED PoolNext) =>
            ((\A w \in Workers : wk[w].pc = "exited") /\ poolClosed))
    /\ [][\A w \in Workers : wk[w].pc = "exited" => wk'[w] = wk[w]]_vars
    /\ [][poolClosed => (poolClosed' /\ ~PoolClose)]_vars

\* C27: CreateProducersPool with a context that has no int max-producers
\* value starts no worker, sends exactly one Result, which carries the
\* configuration error, and closes the result channel and the exited
\* channel: a reader gets that Result and then finds both channels closed.
C27_ConfigErrorClosesPool ==
    /\ [][(PoolCreate /\ ~maxProducersOk) =>
            /\ wk' = wk
            /\ chanRes' = <<ConfigErrRes>>
            /\ poolClosed']_vars
    /\ []((~maxProducersOk) =>
            /\ \A w \in Workers : wk[w].pc = "none"
            /\ \A k \in DOMAIN emitted : k = <<NoCtx, 0>> /\ emitted[k] = 1
            /\ \A i \in 1..Len(chanRes) : chanRes[i].err = "config"
            /\ (~ENABLED PoolNext => (poolClosed /\ chanRes = <<>> /\ emitted # <<>>)))

C27_Witness == ~maxProducersOk /\ poolClosed /\ chanRes = <<>> /\ emitted # <<>>

\* no goroutine appRun started, directly or through runOnce, runPeriodic,
\* ProcessFeed, CreateProducersPool or RunServer, is alive or blocked
NoGoroutineLeft ==
    /\ errLogger # "running"
    /\ srvPc \in {"none", "exited"} /\ redirPc \in {"none", "exited"}
    /\ \A w \in Workers : wk[w].pc \in {"none", "exited"}
    /\ (\E w \in Workers : wk[w].pc # "none") => poolClosed
    /\ foldPc \in {"none", "exited"}
    /\ \A p \in Passes :
         /\ pgPc[p] \in {"none", "exited"}
         /\ \A f \in Feeds :
              /\ fg[p][f].pc \in {"none", "done"}
              /\ dec[p][f] \in {"none", "done"}
              /\ feedDefer[p][f] # "pending"

\* C28: after shutdown no goroutine remains and every stream is closed:
\* once appRun has made its cancel calls (it is waiting for the error
\* logger, or has returned) and nothing in the process can take a step any
\* more, no goroutine it started is left and no stream is open.
C28_NoLeak ==
    (appPc \in {"wait", "returned"} /\ ~panicked /\ ~ENABLED Next) =>
        (NoGoroutineLeft /\ \A p \in Passes, f \in Feeds : stream[p][f] # "open")

\* C29: no panic ends the process before the shutdown sequence has run:
\* when a panic has ended the process, appRun has made its cancel calls.
C29_PanicsRecovered ==
    panicked => (kafkaCancelled /\ appPc \in {"wait", "returned"})

\* 10 to the power n
RECURSIVE Pow10(_)
Pow10(n) == IF n = 0 THEN 1 ELSE 10 * Pow10(n - 1)

\* the digits of the text from position a to position b
DigitsIn(text, a, b) == SelectSeq(SubSeq(text, a, b), LAMBDA c : c \in Digits)

\* C30: a text of digits and spaces with exactly one comma or dot (and at
\* least one digit) parses without error to the decimal whose whole part
\* is written by the digits before the separator and whose fraction by the
\* digits after it, the same for a comma as for a dot; every text with two
\* or more commas or dots fails, and the SHOPITEM that holds it yields no
\* record.
C30_PriceParsing ==
    priceRes.done =>
        LET seps == Positions(priceText, ",") \cup Positions(priceText, ".")
            plain == \A i \in 1..Len(priceText) : priceText[i] \in Digits \cup {" ", ",", "."}
        IN /\ (plain /\ Cardinality(seps) = 1 /\ DigitsIn(priceText, 1, Len(priceText)) # <<>>) =>
                LET at == Least(seps)
                    whole == DigitsIn(priceText, 1, at - 1)
                    frac == DigitsIn(priceText, at + 1, Len(priceText))
                IN /\ ~priceRes.err
                   /\ priceRes.exp <= 0 /\ Len(frac) + priceRes.exp >= 0
                   /\ priceRes.mant * Pow10(Len(frac) + priceRes.exp) = Num(whole \o frac)
           /\ Cardinality(seps) >= 2 =>
                /\ priceRes.err
                /\ GetItemFromStream("bad", 1, 0).item = NoItem

C30_Witness ==
    /\ priceText = <<"1", " ", "0", ",", "1">>
    /\ priceRes = [done |-> TRUE, err |-> FALSE, mant |-> 101, exp |-> -1]

\* the state of the driver machine runPeriodic is in: Terminated once it
\* has returned, Stopping once a stop is requested (runLoop is false, or
\* the first pass has returned errors), Running while a pass is in flight
\* (the first runOnce call, or processing), Idle otherwise
DriverState ==
    CASE appPc = "report" -> "Terminated"
      [] appPc \in {"call"} -> "Idle"
      [] appPc = "pass1" -> "Running"
      [] appPc = "checkFirst" -> IF Len(errs) # 0 THEN "Stopping" ELSE "Idle"
      [] ~runLoop -> "Stopping"
      [] processing -> "Running"
      [] OTHER -> "Idle"

\* the transitions of the driver machine
DriverTransitions ==
    {<<"Idle", "Running">>, <<"Running", "Idle">>, <<"Running", "Stopping">>,
     <<"Idle", "Stopping">>, <<"Stopping", "Terminated">>}

\* C31: every step of runPeriodic is a transition of the driver machine or
\* leaves its state as it is: Idle to Running only by the first start or a
\* tick, Running to Idle only when a pass completes, to Stopping only by a
\* termination signal or a pass error (and each of these does lead to
\* Stopping), and to Terminated only from Stopping.
C31_DriverRefinesMachine ==
    /\ [][DriverState' = DriverState \/ <<DriverState, DriverState'>> \in DriverTransitions]_vars
    /\ [][(DriverState = "Idle" /\ DriverState' = "Running") =>
             (RunPeriodicStart \/ RunPeriodicTick)]_vars
    /\ [][(DriverState = "Running" /\ DriverState' = "Idle") =>
             (RunPeriodicFirstPass \/ \E p \in Passes : RunPeriodicRecvDone(p))]_vars
    /\ [][(DriverState # "Stopping" /\ DriverState' = "Stopping") =>
             (RunPeriodicSignal \/ RunPeriodicFirstPass \/ \E p \in Passes : RunPeriodicRecvErr(p))]_vars
    /\ [][(RunPeriodicSignal \/ \E p \in Passes : RunPeriodicRecvErr(p)) =>
             DriverState' = "Stopping"]_vars
    /\ [][DriverState' = "Terminated" => DriverState \in {"Stopping", "Terminated"}]_vars

C31_Witness ==
    /\ DriverState = "Terminated" /\ sigCount > 0
    /\ \E p \in Passes : p > 1 /\ pgPc[p] = "exited"

\* C32: the joins of the shutdown happen in order: chanKafkaItem is closed
\* only when every per-feed goroutine and decoder has ended, the result
\* channel only when every worker has left its loop, processKafkaRes ends
\* only after the result channel is closed, the metrics endpoint is stopped
\* only after processKafkaRes (where it was started) has ended, and appRun
\* returns from its shutdown only after all of that.
C32_JoinOrder ==
    /\ itemChanClosed =>
         \A p \in Passes, f \in Feeds :
             fg[p][f].pc \in {"none", "done"} /\ dec[p][f] \in {"none", "done"}
    /\ poolClosed => \A w \in Workers : wk[w].pc = "exited"
    /\ foldPc = "exited" => poolClosed
    /\ (srvPc = "exited" /\ foldPc # "none") => foldPc = "exited"
    /\ (appPc = "returned" /\ itemChanClosed) => (foldPc = "exited" /\ srvPc = "exited")

\* C33: a cancellation does not abort a job a worker has consumed: a
\* worker that holds a job does not leave its loop, the step that ends a job
\* under a cancelled context emits the job's Result, and when the
\* cancelled pool has come to rest every job a worker consumed has produced
\* its Result.
C33_CancelDoesNotAbort ==
    /\ [][\A w \in Workers : wk[w].pc \in {"busy", "await"} => wk'[w].pc # "exited"]_vars
    /\ [][\A w \in Workers :
            (kafkaCancelled /\ wk[w].pc = "busy" /\ wk'[w].pc = "select") =>
                LET k == JobKey(wk[w].job)
                IN k \in DOMAIN emitted' /\ emitted'[k] = Sent(k) + 1]_vars
    /\ []((kafkaCancelled /\ ~ENABLED PoolNext) => \A k \in consumed : Sent(k) = 1)

\* the jobs workers have received and not yet answered with a Result
Unanswered == {k \in consumed : Sent(k) = 0}

\* C34: at most as many jobs as there are workers are received and not yet
\* answered; chanKafkaItem holds no job: a per-feed goroutine gets past its
\* send only in the step in which a worker that was waiting in its select
\* takes that very job; and every record sent is a job a worker received.
C34_BackPressure ==
    /\ [](Cardinality(Unanswered) <= NumWorkers)
    /\ [][\A p \in Passes, f \in Feeds :
            (fg[p][f].pc = "enqueue" /\ fg'[p][f].pc # "enqueue") =>
                \E w \in Workers :
                    /\ wk[w].pc = "select"
                    /\ wk'[w] = [pc |-> "busy", job |-> AppItem(fg[p][f].item, f)]]_vars
    /\ [](\A f \in Feeds :
            /\ Len(sentOrder[f]) = ConsumedOf(f)
            /\ \A i \in 1..Len(sentOrder[f]) : <<f, sentOrder[f][i]>> \in consumed)

C34_Witness ==
    /\ Cardinality(Unanswered) = NumWorkers
    /\ \E p \in Passes, f \in Feeds : fg[p][f].pc = "enqueue"
    /\ \E w \in Workers : wk[w].pc = "busy"

\* C35: a per-feed goroutine whose stream could not be opened touches
\* nothing but errChan and exitChan: the failing open and the report that
\* follows leave the container, the decoder, the deferred gauge decrement
\* and the records sent to the workers as they are, and the gauge of a
\* feed is raised (and its decrement deferred) only with the stream opened.
C35_OpenFailureTouchesNothing ==
    /\ [](\A p \in Passes, f \in Feeds :
            /\ fg[p][f].err = "open" =>
                 /\ fg[p][f].pc \in {"report", "done"} /\ fg[p][f].item = NoItem
                 /\ dec[p][f] = "none" /\ stream[p][f] = "none" /\ feedDefer[p][f] = "none"
            /\ feedDefer[p][f] # "none" => stream[p][f] # "none")
    /\ [][\A p \in Passes, f \in Feeds :
            (fg'[p][f].err = "open" /\ fg'[p][f] # fg[p][f]) =>
                /\ fg[p][f].pc \in {"open", "report"}
                /\ mc' = mc /\ sentOrder' = sentOrder /\ consumed' = consumed /\ wk' = wk]_vars

C35_Witness ==
    \E f \in feeds :
        /\ fg[1][f].err = "open" /\ fg[1][f].pc = "done"
        /\ f \in DOMAIN mc /\ \A k \in MetricKinds : mc[f][k] = 0
        /\ \E g \in feeds : g # f /\ Len(sentOrder[g]) > 0

\* C36: no per-feed goroutine of runOnce closes the closed exitChan or
\* sends on the closed errChan: no step in which a per-feed goroutine
\* reports on errChan and closes exitChan, or reports a missing metric,
\* ends in a panic.
C36_ChannelsUsedOnce ==
    [][\A p \in Passes, f \in Feeds :
         (FeedReport(p, f) \/ FeedMetricErr(p, f)) => ~panicked']_vars

\* C37: the decoder goroutine of every feed ends and closes its two
\* channels: it is never left in a send on chanItemProducer or chanItemError
\* that the consumer, having left its loop, will not receive, and when
\* nothing in the pass can move any more (and no panic has ended the
\* process) every decoder that was started has ended.
C37_DecoderTerminates ==
    \A p \in Passes, f \in Feeds :
        /\ fg[p][f].pc \in {"report", "done"} => dec[p][f] \notin {"sendItem", "sendErr"}
        /\ (~panicked /\ ~ENABLED RunOnceNext) => dec[p][f] \in {"none", "done"}

C39_NoReturnWhilePassAlive ==
    /\ [](appPc = "report" => \A p \in Passes : pgPc[p] \in {"none", "exited"} /\ pgErrs[p] = <<>>)
    /\ [][\A p \in Passes :
            (RunPeriodicRecvErr(p) \/ RunPeriodicRecvDone(p)) => ~panicked']_vars
    /\ [](~ENABLED DriverNext => \A p \in Passes : pgPc[p] \notin {"sendErr", "sendDone"})

C39_Witness ==
    /\ appPc = "report" /\ sigCount = 0 /\ errs = <<"feed">>
    /\ \E p \in Passes : p > 1 /\ pgPc[p] = "exited"

\* C40: a SHOPITEM that decodes without error and has no ID is dropped:
\* no job without an ID is held by a per-feed goroutine, sent to the
\* workers, received by a worker or answered with a Result, and the step in
\* which a consumer receives an item and stays in its select (the item had
\* no ID) leaves the errors of the pass, the container, the workers and
\* the result channel as they are.
C40_EmptyIdDropped ==
    /\ [](/\ \A p \in Passes, f \in Feeds : fg[p][f].pc = "enqueue" => fg[p][f].item.id # 0
          /\ \A f \in Feeds : \A i \in 1..Len(sentOrder[f]) : sentOrder[f][i] # 0
          /\ \A k \in consumed \cup DOMAIN emitted : k[2] # 0
          /\ \A w \in Workers : wk[w].pc = "busy" => wk[w].job.id # 0)
    /\ [][\A p \in Passes, f \in Feeds :
            (FeedRecvItem(p, f) /\ fg'[p][f].pc = "select") =>
                UNCHANGED <<roErrs, errBuf, mc, wk, chanRes, consumed, sentOrder, emitted, panicked>>]_vars

C40_Witness ==
    /\ itemsRead = 1 /\ consumed = {} /\ roErrs[1] = <<>>
    /\ \A f \in feeds : fg[1][f].pc = "select" /\ dec[1][f] = "read" /\ errBuf[1][f] = <<>>
    /\ \A w \in Workers : wk[w].pc = "select"
    /\ \A f \in DOMAIN mc : \A k \in MetricKinds \ {"feed"} : mc[f][k] = 0

====
